---------------------------- MODULE Spec2Model ----------------------------
(***************************************************************************)
(* Model of the position lifecycle engine of algobot:                      *)
(*   - the Position entity          (src/src/core/position.py)             *)
(*   - PositionService.close_position                                      *)
(*                                  (src/src/services/position_service.py) *)
(*   - the file position store, its locks, the maintenance pass and the    *)
(*     reconciliation routine                                              *)
(*                      (src/src/repositories/file_position_repository.py, *)
(*                       src/src/repositories/file_lock.py,                *)
(*                       src/src/tasks/maintenance_tasks.py,               *)
(*                       src/src/tasks/fix_position_race.py, src/main.py)  *)
(*                                                                         *)
(* Quantities are Decimals in the source; the model counts them in whole   *)
(* multiples of the smallest quantity unit, which is exact.  Prices and    *)
(* timestamps are stored by the source but decide none of the modelled     *)
(* fields, so they are left out of the records.                            *)
(***************************************************************************)
EXTENDS Integers, Sequences, FiniteSets, TLC

VARIABLES
    \* ---- Position entity under arbitrary call sequences (SpecPosition)
    pos,            \* the Position object
    posRes,         \* outcome of the last add_take_profit / close call
    closedTotal,    \* history: sum of the quantities drained by close calls
    partialClosed,  \* history: some close call drained > 0 and left it OPEN
    \* ---- PositionService over one store instance (SpecService)
    svcCache,       \* positions_cache: id -> Position or NoPos
    svcFile,        \* open-positions file: id -> Position or NoPos
    svcClosed,      \* closed partition: id -> number of records
    svcLedger,      \* trade outcomes: id -> number of rows
    svcOrders,      \* exchange: id -> closing market orders placed
    svcRes,         \* outcome of the last service call
    \* ---- The file store shared by two processes (SpecStore)
    files,          \* open / closed partition file: [st, recs]
    ledger,         \* trade_outcomes.csv: id -> number of rows
    locks,          \* flock state per file: process -> NONE / SH / EX
    cache,          \* positions_cache of each store instance
    pc,             \* where each process stands in its current operation
    loc,            \* local variables of each process's current operation
    opsLeft,        \* operations that may still be started
    crashes,        \* crashes of the server process so far
    used,           \* ids ever given to a position (uuid4 never repeats)
    persisted,      \* history: ids a completed store write has persisted
    io,             \* history: last file access of each process
    res,            \* history: outcome of each process's last operation
    crashRec,       \* history: the write a crash interrupted
    fixRes,         \* history: what the last reconciliation write did
    \* ---- Asset.ensure_valid_quantity applied repeatedly (SpecAsset)
    asset,          \* the Asset: min_quantity, max_quantity, step_size
    assetQty,       \* the quantity held by the caller
    assetRes,       \* history: argument and result of the last call
    \* ---- SignalProcessor._calculate_trade_amount (SpecAmount)
    amount,         \* the signal's amount field, the policy default and maximum
    amountRes,      \* history: the trade amount of the last call
    \* ---- The scheduled task loops and their cancellation (SpecTasks)
    taskPc,         \* where run_scheduled_tasks stands (its pending await)
    taskTodo,       \* positions the running iteration has still to check
    taskStore,      \* the store: id -> NONE / OPEN / CLOSED
    taskSold,       \* the exchange: ids whose closing order was executed
    taskRes,        \* history: the last thing that happened to the loop
    \* ---- Loading a partition file with invalid content (SpecLoad)
    loadFile,       \* content of the partition file
    loadBackups,    \* backup directory: file name (hour stamp) -> content
    loadHour,       \* the hour datetime.now() reports
    loadRes,        \* history: what the last load or corruption did
    \* ---- The reconciliation routine run alone (SpecFix)
    raceOpen,       \* open partition: sequence of [id, status]
    raceClosed,     \* closed partition: sequence of [id, status]
    raceRes,        \* history: the partitions before the last run
    \* ---- A call wrapped by with_retries (SpecRetry)
    retryCfg,       \* the decorator's arguments: retry_for and exclude
    retryPc,        \* where the wrapper stands
    retryCount,     \* retry_count
    retryAttempts,  \* history: category -> attempts that failed with it
    retryErr,       \* history: the error of the last failed attempt
    \* ---- Coroutines acting on one position at once (SpecConcurrent)
    conStore,       \* the store holding the position
    conPc,          \* where each coroutine stands (its pending await)
    conLoc,         \* the operation, Position object and quantity it holds
    conSold,        \* the exchange: total quantity of the filled orders
    conStarted      \* service calls started so far

posVars == <<pos, posRes, closedTotal, partialClosed>>
svcVars == <<svcCache, svcFile, svcClosed, svcLedger, svcOrders, svcRes>>

storeVars == <<files, ledger, locks, cache, pc, loc, opsLeft, crashes, used,
               persisted, io, res, crashRec, fixRes>>

assetVars == <<asset, assetQty, assetRes>>

amountVars == <<amount, amountRes>>

taskVars == <<taskPc, taskTodo, taskStore, taskSold, taskRes>>

loadVars == <<loadFile, loadBackups, loadHour, loadRes>>

raceVars == <<raceOpen, raceClosed, raceRes>>

retryVars == <<retryCfg, retryPc, retryCount, retryAttempts, retryErr>>

conVars == <<conStore, conPc, conLoc, conSold, conStarted>>

moreVars == <<retryVars, conVars>>

extVars == <<assetVars, amountVars, taskVars, loadVars, raceVars, moreVars>>

vars == <<posVars, svcVars, storeVars, extVars>>

(***************************************************************************)
(* Bounds                                                                  *)
(***************************************************************************)
MaxQty == 3
MaxTp == 2
MaxIds == 2
MaxStep == 2
MaxOrders == 2
MaxOps == 2
MaxCrashes == 1

Ids == 1..MaxIds

Min(a, b) == IF a <= b THEN a ELSE b

\* The asset variables while another specification runs
AssetIdle == asset = <<>> /\ assetQty = 0 /\ assetRes = <<>>

AmountIdle == amount = <<>> /\ amountRes = <<>>

TaskIdle ==
    /\ taskPc = "idle" /\ taskTodo = {} /\ taskStore = <<>> /\ taskSold = {}
    /\ taskRes = <<>>

LoadIdle ==
    loadFile = <<>> /\ loadBackups = <<>> /\ loadHour = 0 /\ loadRes = <<>>

RaceIdle == raceOpen = <<>> /\ raceClosed = <<>> /\ raceRes = <<>>

RetryIdle ==
    /\ retryCfg = <<>> /\ retryPc = "idle" /\ retryCount = 0
    /\ retryAttempts = <<>> /\ retryErr = <<>>

ConIdle ==
    /\ conStore = <<>> /\ conPc = <<>> /\ conLoc = <<>> /\ conSold = 0
    /\ conStarted = 0

\* The variables of the specifications other than spec, outside position,
\* service and store, while spec runs
ExtIdleExcept(spec) ==
    /\ spec # "asset" => AssetIdle
    /\ spec # "amount" => AmountIdle
    /\ spec # "tasks" => TaskIdle
    /\ spec # "load" => LoadIdle
    /\ spec # "race" => RaceIdle
    /\ spec # "retry" => RetryIdle
    /\ spec # "concurrent" => ConIdle

ExtIdle == ExtIdleExcept("none")

\* The store variables while another specification runs
StoreIdle ==
    /\ files = <<>> /\ ledger = <<>> /\ locks = <<>> /\ cache = <<>>
    /\ pc = <<>> /\ loc = <<>> /\ opsLeft = 0 /\ crashes = 0 /\ used = {}
    /\ persisted = {} /\ io = <<>> /\ res = <<>> /\ crashRec = <<>>
    /\ fixRes = <<>>

RECURSIVE SumQty(_)
SumQty(s) == IF s = <<>> THEN 0 ELSE Head(s).quantity + SumQty(Tail(s))

(***************************************************************************)
(* Position (position.py)                                                  *)
(***************************************************************************)
NoCloseData == [set |-> FALSE, quantity |-> 0, reason |-> "none"]

\* Position.__post_init__: remaining_quantity defaults to initial_quantity,
\* status OPEN, no take profits, no close_data; leverage defaults to 1 and
\* margin_type to None (a spot position).
NewPosition(initial, tpmax) ==
    [status |-> "OPEN", initial_quantity |-> initial,
     remaining_quantity |-> initial, take_profits |-> <<>>,
     close_data |-> NoCloseData, take_profit_max |-> tpmax,
     direction |-> "LONG", leverage |-> 1, margin_type |-> "None"]

\* Position(...) as open_position constructs it (position_service.py:138-150)
Position(initial, tpmax, direction, leverage, margin_type) ==
    [NewPosition(initial, tpmax) EXCEPT !.direction = direction,
                                        !.leverage = leverage,
                                        !.margin_type = margin_type]

\* Position.last_tp_level: the highest level recorded, 0 when there is none
last_tp_level(p) ==
    IF p.take_profits = <<>> THEN 0
    ELSE CHOOSE l \in {p.take_profits[i].level : i \in DOMAIN p.take_profits} :
            \A i \in DOMAIN p.take_profits : p.take_profits[i].level <= l

is_closed(p) == p.status = "CLOSED"

Levels(p) == {p.take_profits[i].level : i \in DOMAIN p.take_profits}

Raised(p, e) == [ok |-> FALSE, err |-> e, pos |-> p]
Returned(p) == [ok |-> TRUE, err |-> "none", pos |-> p]

\* Mutant of close: the quantity is not clamped to what remains.
close_unclamped(p, quantity, reason) ==
    IF is_closed(p) THEN Raised(p, "Position already closed")
    ELSE LET p1 == [p EXCEPT
                      !.close_data = [set |-> TRUE, quantity |-> quantity,
                                      reason |-> reason],
                      !.remaining_quantity = @ - quantity]
         IN  IF p1.remaining_quantity <= 0
             THEN Returned([p1 EXCEPT !.status = "CLOSED",
                                      !.remaining_quantity = 0])
             ELSE Returned(p1)

\* Mutant of close: an already closed position is not refused.
close_unguarded(p, quantity, reason) ==
    LET adjusted_quantity == Min(quantity, p.remaining_quantity)
        p1 == [p EXCEPT
                 !.close_data = [set |-> TRUE, quantity |-> adjusted_quantity,
                                 reason |-> reason],
                 !.remaining_quantity = @ - adjusted_quantity]
    IN  IF p1.remaining_quantity <= 0
        THEN Returned([p1 EXCEPT !.status = "CLOSED",
                                 !.remaining_quantity = 0])
        ELSE Returned(p1)

\* Mutant of close: the position is marked CLOSED whatever remains.
close_final(p, quantity, reason) ==
    IF is_closed(p) THEN Raised(p, "Position already closed")
    ELSE LET adjusted_quantity == Min(quantity, p.remaining_quantity)
         IN  Returned([p EXCEPT
                         !.close_data = [set |-> TRUE,
                                         quantity |-> adjusted_quantity,
                                         reason |-> reason],
                         !.remaining_quantity = @ - adjusted_quantity,
                         !.status = "CLOSED"])

\* Position.close(price, quantity, reason)
close(p, quantity, reason) ==
    IF is_closed(p) THEN Raised(p, "Position already closed")
    ELSE LET adjusted_quantity == Min(quantity, p.remaining_quantity)
             p1 == [p EXCEPT
                      !.close_data = [set |-> TRUE,
                                      quantity |-> adjusted_quantity,
                                      reason |-> reason],
                      !.remaining_quantity = @ - adjusted_quantity]
         IN  IF p1.remaining_quantity <= 0
             THEN Returned([p1 EXCEPT !.status = "CLOSED",
                                      !.remaining_quantity = 0])
             ELSE Returned(p1)

\* Mutant of add_take_profit: a level already recorded is not refused.
add_take_profit_repeat(p, quantity, level) ==
    IF is_closed(p) THEN Raised(p, "Cannot add take profit to closed position")
    ELSE IF level > p.take_profit_max THEN Raised(p, "level exceeds maximum")
    ELSE LET adjusted_quantity == Min(quantity, p.remaining_quantity)
         IN  IF adjusted_quantity <= 0
             THEN Raised(p, "No quantity available for take profit")
             ELSE LET p1 == [p EXCEPT
                               !.take_profits =
                                   Append(@, [level |-> level,
                                              quantity |-> adjusted_quantity]),
                               !.remaining_quantity = @ - adjusted_quantity]
                  IN  IF level = p1.take_profit_max
                         \/ p1.remaining_quantity <= 0
                      THEN Returned(close(p1, 0, "Manual close").pos)
                      ELSE Returned(p1)

\* Position.add_take_profit(price, quantity, level)
add_take_profit(p, quantity, level) ==
    IF is_closed(p) THEN Raised(p, "Cannot add take profit to closed position")
    ELSE IF level > p.take_profit_max THEN Raised(p, "level exceeds maximum")
    ELSE IF level \in Levels(p) THEN Raised(p, "level already executed")
    ELSE LET adjusted_quantity == Min(quantity, p.remaining_quantity)
         IN  IF adjusted_quantity <= 0
             THEN Raised(p, "No quantity available for take profit")
             ELSE LET p1 == [p EXCEPT
                               !.take_profits =
                                   Append(@, [level |-> level,
                                              quantity |-> adjusted_quantity]),
                               !.remaining_quantity = @ - adjusted_quantity]
                  IN  IF level = p1.take_profit_max
                         \/ p1.remaining_quantity <= 0
                      THEN Returned(close(p1, 0, "Manual close").pos)
                      ELSE Returned(p1)

(***************************************************************************)
(* SpecPosition: one Position driven by any sequence of add_take_profit    *)
(* and close calls with non-negative quantities.                           *)
(***************************************************************************)
NoCall == [op |-> "none", ok |-> TRUE, level |-> 0, quantity |-> 0,
           before |-> 0]

PosInit ==
    /\ StoreIdle
    /\ ExtIdle
    /\ svcCache = <<>> /\ svcFile = <<>> /\ svcClosed = <<>> /\ svcLedger = <<>>
    /\ svcOrders = <<>> /\ svcRes = <<>>
    /\ \E initial \in 1..MaxQty, tpmax \in 1..MaxTp :
          pos = NewPosition(initial, tpmax)
    /\ posRes = NoCall
    /\ closedTotal = 0
    /\ partialClosed = FALSE

PosAddTakeProfit ==
    \E quantity \in 0..MaxQty, level \in 1..(MaxTp + 1) :
       LET r == add_take_profit(pos, quantity, level)
       IN  /\ pos' = r.pos
           /\ posRes' = [op |-> "add_take_profit", ok |-> r.ok,
                         level |-> level, quantity |-> quantity,
                         before |-> pos.remaining_quantity]
           /\ UNCHANGED <<closedTotal, partialClosed, svcVars, storeVars, extVars>>

PosClose ==
    \E quantity \in 0..MaxQty :
       LET r == close(pos, quantity, "Manual close")
       IN  /\ pos' = r.pos
           /\ posRes' = [op |-> "close", ok |-> r.ok, level |-> 0,
                         quantity |-> quantity,
                         before |-> pos.remaining_quantity]
           /\ closedTotal' = IF r.ok THEN closedTotal + r.pos.close_data.quantity
                             ELSE closedTotal
           /\ partialClosed' =
                 \/ partialClosed
                 \/ r.ok /\ r.pos.status = "OPEN" /\ r.pos.close_data.quantity > 0
           /\ UNCHANGED <<svcVars, storeVars, extVars>>

PosNext == PosAddTakeProfit \/ PosClose

SpecPosition == PosInit /\ [][PosNext]_vars

(***************************************************************************)
(* Claims about the Position entity                                        *)
(***************************************************************************)
ClosedPart(p) == IF is_closed(p) THEN p.close_data.quantity ELSE 0

\* C2 (as claimed): a successful add_take_profit at level ==
\* take_profit_max leaves the position CLOSED, whatever quantity remains.
C2_FinalTakeProfitCloses ==
    (posRes.op = "add_take_profit" /\ posRes.ok
       /\ posRes.level = pos.take_profit_max)
    => pos.status = "CLOSED"

\* C3 (as claimed): remaining_quantity == initial_quantity - sum of the
\* take-profit quantities - (close_data.quantity if CLOSED else 0), and is
\* never negative.
C3_Original ==
    /\ pos.remaining_quantity >= 0
    /\ pos.remaining_quantity =
          pos.initial_quantity - SumQty(pos.take_profits) - ClosedPart(pos)

\* C3 (amended): remaining_quantity is never negative and equals
\* initial_quantity minus the take-profit quantities minus the quantities
\* recorded by ALL successful close calls so far; the claimed equation holds
\* as long as no earlier close call was a partial close.
C3_Accounting ==
    /\ pos.remaining_quantity >= 0
    /\ pos.remaining_quantity =
          pos.initial_quantity - SumQty(pos.take_profits) - closedTotal
    /\ (~partialClosed =>
          pos.remaining_quantity =
            pos.initial_quantity - SumQty(pos.take_profits) - ClosedPart(pos))

\* C3 witness: a position CLOSED by a draining close call after a take
\* profit and a partial close.
C3_Witness ==
    /\ partialClosed
    /\ pos.status = "CLOSED"
    /\ pos.take_profits # <<>>
    /\ posRes.op = "close" /\ posRes.ok

C11_ClosedIsFinal ==
    [][pos.status = "CLOSED" => (pos' = pos /\ ~posRes'.ok)]_vars

\* C11 witness: a call has just been refused on a CLOSED position that
\* carries a take profit.
C11_Witness ==
    /\ pos.status = "CLOSED"
    /\ ~posRes.ok
    /\ posRes.before = 0
    /\ pos.take_profits # <<>>

\* C12: an add_take_profit call whose level is already recorded or exceeds
\* take_profit_max raises and leaves the position as it was; a call that
\* succeeds records a level that was not recorded before, exactly once.
C12_LevelAtMostOnce ==
    [][posRes'.op = "add_take_profit" =>
          /\ (posRes'.level \in Levels(pos)
               \/ posRes'.level > pos.take_profit_max)
              => (~posRes'.ok /\ pos' = pos)
          /\ posRes'.ok
              => /\ posRes'.level \notin Levels(pos)
                 /\ Len(pos'.take_profits) = Len(pos.take_profits) + 1
                 /\ pos'.take_profits[Len(pos'.take_profits)].level
                        = posRes'.level
                 /\ SubSeq(pos'.take_profits, 1, Len(pos.take_profits))
                        = pos.take_profits]_vars

\* C12 witness: a second call at a recorded level was refused on a position
\* that is still OPEN with quantity left.
C12_Witness ==
    /\ posRes.op = "add_take_profit"
    /\ ~posRes.ok
    /\ posRes.level \in Levels(pos)
    /\ pos.status = "OPEN"
    /\ pos.remaining_quantity > 0
    /\ posRes.quantity > 0

(***************************************************************************)
(* PositionService over one store instance (position_service.py).          *)
(* Store calls are those of file_position_repository.py run to completion  *)
(* by the one process, with no lock contention.                            *)
(***************************************************************************)
NoPos == [status |-> "NONE"]

\* FilePositionRepository._create_position_from_dict: margin_type is not
\* among the fields passed to Position(...), so it takes its default None;
\* a record carrying close_data is loaded as CLOSED, and a CLOSED position
\* with quantity left is loaded with remaining_quantity 0.
create_position_from_dict(d) ==
    LET p0 == [d EXCEPT !.margin_type = "None"]
        p1 == IF d.close_data.set THEN [p0 EXCEPT !.status = "CLOSED"] ELSE p0
    IN  IF is_closed(p1) /\ p1.remaining_quantity > 0
        THEN [p1 EXCEPT !.remaining_quantity = 0]
        ELSE p1

\* FilePositionRepository.reload_positions / _load_positions on a valid file
reload_positions(file) ==
    [i \in Ids |-> IF file[i] = NoPos THEN NoPos
                   ELSE create_position_from_dict(file[i])]

\* The keyword parameters Position.close declares besides price and quantity
CloseKeywords == {"reason", "external_id"}

\* A call position.close(price, quantity, **kwargs): Python raises TypeError
\* before the body runs when a keyword is not a parameter of close.
close_call(p, quantity, reason, kwargs) ==
    IF kwargs \subseteq CloseKeywords THEN close(p, quantity, reason)
    ELSE Raised(p, "TypeError: unexpected keyword argument")

AdapterInfo ==
    {[ok |-> FALSE, step_size |-> 0, min_quantity |-> 0]} \cup
    {[ok |-> TRUE, step_size |-> s, min_quantity |-> m] :
        s \in 0..MaxStep, m \in 0..MaxStep}

OrderOutcome == {"failed", "filled", "nofills"}

Flow(outcome, err, order, p, update, attempted, placed) ==
    [outcome |-> outcome, err |-> err, order |-> order, pos |-> p,
     update |-> update, attempted |-> attempted, placed |-> placed]

\* The except branch of close_position (position_service.py:522-561);
\* attempted: place_market_order was called, placed: the quantity it filled.
close_position_handler(position, reason, priceOk, attempted, placed) ==
    IF ~priceOk
    THEN Flow("raised", "get_current_price failed", FALSE, position, FALSE,
              attempted, placed)
    ELSE LET c == close_call(position, position.remaining_quantity,
                             "exchange_failed", {"reason", "margin_details"})
         IN  IF c.ok
             THEN Flow("returned", "none", FALSE, c.pos, TRUE, attempted,
                       placed)
             ELSE Flow("raised", c.err, FALSE, position, FALSE, attempted,
                       placed)

\* PositionService.close_position after the reload and get_by_id:
\* info, ord and price are what the adapter answers to get_asset_info,
\* place_market_order and the three get_current_price calls.
close_position(position, reason, info, ord, price) ==
    IF position = NoPos
    THEN Flow("raised", "Position not found", FALSE, position, FALSE,
              FALSE, 0)
    ELSE IF is_closed(position)
    THEN Flow("returned", "none", FALSE, position, FALSE, FALSE, 0)
    ELSE IF position.remaining_quantity <= 0
    THEN \* position.last_price: Position has no such attribute
         Flow("raised", "AttributeError: last_price", FALSE, position,
              FALSE, FALSE, 0)
    ELSE LET rem == position.remaining_quantity
             quantity_to_execute ==
                 IF info.step_size > 0
                 THEN (rem \div info.step_size) * info.step_size
                 ELSE rem
             belowMin == info.ok /\ info.min_quantity > 0
                                 /\ quantity_to_execute < info.min_quantity
         IN  IF belowMin /\ price[1]
             THEN Flow("returned", "none", FALSE,
                       close_call(position, rem, "below_minimum",
                                  {"reason"}).pos, TRUE, FALSE, 0)
             ELSE IF ~info.ok
             THEN \* quantity_to_execute was never bound: UnboundLocalError
                  close_position_handler(position, reason, price[3],
                                         FALSE, 0)
             ELSE IF ord = "failed"
             THEN close_position_handler(position, reason, price[3],
                                         TRUE, 0)
             ELSE IF ord = "nofills" /\ ~price[2]
             THEN close_position_handler(position, reason, price[3],
                                         TRUE, quantity_to_execute)
             ELSE Flow("returned", "none", TRUE,
                       close_call(position, rem, reason,
                                  {"reason", "external_id"}).pos, TRUE,
                       TRUE, quantity_to_execute)

\* The adapter answers close_position never asks for are fixed (get_asset_info
\* succeeding with no constraints, the order filled, the price known), so
\* that each behaviour of a call is drawn once.
Consulted(position, info, ord, price) ==
    LET eligible == position # NoPos /\ ~is_closed(position)
                       /\ position.remaining_quantity > 0
        rem == position.remaining_quantity
        qte == IF info.step_size > 0
               THEN (rem \div info.step_size) * info.step_size ELSE rem
        belowMin == info.ok /\ info.min_quantity > 0 /\ qte < info.min_quantity
        localClose == belowMin /\ price[1]
        attempted == eligible /\ ~localClose /\ info.ok
        handler == eligible /\ ~localClose
                     /\ (~info.ok \/ ord = "failed"
                           \/ (ord = "nofills" /\ ~price[2]))
    IN  /\ ~eligible => info = [ok |-> TRUE, step_size |-> 0,
                                min_quantity |-> 0]
        /\ ~(eligible /\ belowMin) => price[1]
        /\ ~attempted => ord = "filled"
        /\ ~(attempted /\ ord = "nofills") => price[2]
        /\ ~handler => price[3]

\* One store instance: positions_cache, the open-positions file, the closed
\* partition (id -> number of records) and the trade outcomes (id -> rows)
Store(c, f, cl, lg) == [cache |-> c, file |-> f, closed |-> cl, ledger |-> lg]

\* FilePositionRepository.update(position) for a position found in the cache:
\* save, and for a CLOSED position _handle_closed_position (closed
\* partition de-duplicated by id, one ledger row, delete from the open
\* partition unless the id was already in the closed partition).
repository_update(st, id, p) ==
    LET saved == [st.cache EXCEPT ![id] = p]
        already == st.closed[id] > 0
        after == IF is_closed(p) /\ ~already
                 THEN [saved EXCEPT ![id] = NoPos] ELSE saved
    IN  Store(after, after,
              IF is_closed(p) THEN [st.closed EXCEPT ![id] = 1]
              ELSE st.closed,
              IF is_closed(p) THEN [st.ledger EXCEPT ![id] = @ + 1]
              ELSE st.ledger)

\* repository.update(position) applied to the store of SpecService
SvcUpdate(id, p) ==
    LET s == repository_update(
                 Store(svcCache, svcFile, svcClosed, svcLedger), id, p)
    IN  /\ svcCache' = s.cache
        /\ svcFile' = s.file
        /\ svcClosed' = s.closed
        /\ svcLedger' = s.ledger

Unused(i) == svcCache[i] = NoPos /\ svcFile[i] = NoPos /\ svcClosed[i] = 0

PosIdle ==
    /\ pos = NewPosition(1, 1) /\ posRes = NoCall
    /\ closedTotal = 0 /\ partialClosed = FALSE

NoSvcCall == [op |-> "none", id |-> 0, outcome |-> "returned",
              err |-> "none", order |-> FALSE, ord |-> "none",
              priceOk |-> TRUE, before |-> NoPos, pos |-> NoPos]

SvcInit ==
    /\ PosIdle
    /\ StoreIdle
    /\ ExtIdle
    /\ svcCache = [i \in Ids |-> NoPos]
    /\ svcFile = [i \in Ids |-> NoPos]
    /\ svcClosed = [i \in Ids |-> 0]
    /\ svcLedger = [i \in Ids |-> 0]
    /\ svcOrders = [i \in Ids |-> 0]
    /\ svcRes = NoSvcCall

\* The user settings open_position reads (get_settings())
Settings(allow_long, allow_short, use_margin_for_longs, margin_type, default_leverage) ==
    [allow_long_trades |-> allow_long, allow_short_trades |-> allow_short,
     use_margin_for_longs |-> use_margin_for_longs,
     margin_type |-> margin_type, default_leverage |-> default_leverage]

\* Settings under which every entry is a spot LONG
SpotSettings == Settings(TRUE, FALSE, FALSE, "CROSSED", 1)

OpenFlow(outcome, err, attempted, is_isolated, p) ==
    [outcome |-> outcome, err |-> err, attempted |-> attempted,
     is_isolated |-> is_isolated, pos |-> p]

\* Mutant of open_position: the Position is built before the order's answer
\* is looked at, and handed back although the order failed.
open_position_unchecked(direction, quantity, ord, executedQty, tpmax, settings) ==
    OpenFlow("returned", IF quantity <= 0 THEN "zero quantity"
                         ELSE IF ord = "failed" THEN "order failed"
                         ELSE "none",
             TRUE, "None", Position(quantity, tpmax, direction, 1, "None"))

\* PositionService.open_position up to the Position it hands to
\* repository.save: quantity is what calculate_optimal_quantity returns, ord
\* whether place_market_order succeeds, executedQty the order's executedQty.
open_position(direction, quantity, ord, executedQty, tpmax, settings) ==
    IF quantity <= 0
    THEN OpenFlow("raised", "zero quantity", FALSE, "None", NoPos)
    ELSE LET use_margin ==
                 \/ direction = "SHORT" /\ settings.allow_short_trades
                 \/ /\ direction = "LONG" /\ settings.allow_long_trades
                    /\ settings.use_margin_for_longs
             position_leverage ==
                 IF use_margin THEN settings.default_leverage ELSE 1
             position_margin_type ==
                 IF use_margin THEN settings.margin_type ELSE "None"
             is_isolated ==
                 IF ~use_margin THEN "None"
                 ELSE IF position_margin_type = "ISOLATED" THEN "True"
                 ELSE "False"
         IN  IF ord = "failed"
             THEN OpenFlow("raised", "order failed", TRUE, is_isolated, NoPos)
             ELSE OpenFlow("returned", "none", TRUE, is_isolated,
                           Position(executedQty, tpmax, direction,
                                    position_leverage, position_margin_type))

\* The id the next position gets (uuid4: never one given out before)
NextId == CHOOSE i \in Ids : Unused(i) /\ \A j \in Ids : Unused(j) => i <= j

\* PositionService.open_position(asset, LONG, amount, ...) under SpotSettings
SvcOpenPosition ==
    \E quantity \in 0..MaxQty, ord \in {"failed", "filled"},
       executedQty \in 0..MaxQty, tpmax \in 1..MaxTp :
       /\ \E i \in Ids : Unused(i)
       /\ executedQty <= quantity
       /\ quantity <= 0 => ord = "filled"
       /\ ord = "failed" => executedQty = quantity
       /\ LET id == NextId
              r == open_position("LONG", quantity, ord, executedQty, tpmax,
                                 SpotSettings)
          IN  IF r.outcome = "raised"
              THEN /\ svcRes' = [NoSvcCall EXCEPT !.op = "open_position",
                                    !.outcome = "raised", !.err = r.err,
                                    !.ord = IF r.attempted THEN ord
                                            ELSE "none"]
                   /\ UNCHANGED <<svcCache, svcFile, svcClosed, svcLedger,
                                  svcOrders>>
              ELSE /\ svcCache' = [svcCache EXCEPT ![id] = r.pos]
                   /\ svcFile' = [svcCache EXCEPT ![id] = r.pos]
                   /\ svcRes' = [NoSvcCall EXCEPT !.op = "open_position",
                                    !.id = id, !.err = r.err, !.ord = ord,
                                    !.pos = r.pos]
                   /\ UNCHANGED <<svcClosed, svcLedger, svcOrders>>
       /\ UNCHANGED <<posVars, storeVars, extVars>>

\* PositionService.close_position(position_id, reason)
SvcClosePosition ==
    \E id \in Ids, info \in AdapterInfo, ord \in OrderOutcome,
       price \in [1..3 -> BOOLEAN] :
       LET loaded == reload_positions(svcFile)
           r == close_position(loaded[id], "requested", info, ord, price)
       IN  /\ Consulted(loaded[id], info, ord, price)
           /\ r.placed > 0 => svcOrders[id] < MaxOrders
           /\ svcRes' = [op |-> "close_position", id |-> id,
                         outcome |-> r.outcome, err |-> r.err,
                         order |-> r.order,
                         ord |-> IF r.attempted THEN ord ELSE "none",
                         priceOk |-> \A k \in 1..3 : price[k],
                         before |-> loaded[id], pos |-> r.pos]
           /\ svcOrders' = IF r.placed > 0
                           THEN [svcOrders EXCEPT ![id] = @ + 1]
                           ELSE svcOrders
           /\ IF r.update
              THEN SvcUpdate(id, r.pos)
              ELSE /\ svcCache' = loaded
                   /\ UNCHANGED <<svcFile, svcClosed, svcLedger>>
           /\ UNCHANGED <<posVars, storeVars, extVars>>

SvcNext == SvcOpenPosition \/ SvcClosePosition

SpecService == SvcInit /\ [][SvcNext]_vars

\* C1 (as claimed): close_position on an OPEN position with
\* remaining_quantity > 0 whose market order fails (every price lookup
\* succeeding) returns (position, None) and leaves the position CLOSED with
\* remaining_quantity 0 and a reason naming the failure, persisted as
\* closed and no longer open.
C1_FailedOrderClosesLocally ==
    (/\ svcRes.op = "close_position"
     /\ svcRes.priceOk
     /\ svcRes.before # NoPos
     /\ svcRes.before.status = "OPEN"
     /\ svcRes.before.remaining_quantity > 0
     /\ svcRes.ord = "failed")
    => /\ svcRes.outcome = "returned"
       /\ ~svcRes.order
       /\ svcRes.pos.status = "CLOSED"
       /\ svcRes.pos.remaining_quantity = 0
       /\ svcRes.pos.close_data.reason = "exchange_failed"
       /\ svcClosed[svcRes.id] = 1
       /\ svcCache[svcRes.id] = NoPos
       /\ svcFile[svcRes.id] = NoPos

\* C17 (as claimed): close_position on an OPEN position whose
\* remaining_quantity is already 0 places no exchange order, marks the
\* position CLOSED, persists it as closed and returns (position, None).
C17_ZeroRemainingClosesLocally ==
    (/\ svcRes.op = "close_position"
     /\ svcRes.before # NoPos
     /\ svcRes.before.status = "OPEN"
     /\ svcRes.before.remaining_quantity = 0)
    => /\ svcRes.outcome = "returned"
       /\ ~svcRes.order
       /\ svcRes.ord = "none"
       /\ svcRes.pos.status = "CLOSED"
       /\ svcClosed[svcRes.id] = 1
       /\ svcFile[svcRes.id] = NoPos

\* C18: an open_position call that fails because the computed quantity is
\* zero or negative, or because the market order fails, raises to the
\* caller and leaves the cache, the open partition and the closed partition
\* as they were; with a zero quantity no order is placed.
C18_FailedOpenCreatesNothing ==
    [][(/\ svcRes'.op = "open_position"
        /\ svcRes'.err \in {"zero quantity", "order failed"})
       => /\ svcRes'.outcome = "raised"
          /\ svcRes'.pos = NoPos
          /\ svcCache' = svcCache
          /\ svcFile' = svcFile
          /\ svcClosed' = svcClosed
          /\ svcRes'.err = "zero quantity" => svcRes'.ord = "none"]_vars

\* C18 witness: an open_position call has failed on its market order while
\* the store already held a position.
C18_Witness ==
    /\ svcRes.op = "open_position"
    /\ svcRes.outcome = "raised"
    /\ svcRes.err = "order failed"
    /\ svcRes.ord = "failed"
    /\ \E i \in Ids : svcFile[i] # NoPos

(***************************************************************************)
(* SpecRoundTrip: the Position of SpecPosition, which the store may at any *)
(* point save (Position.to_dict, file_position_repository.py:447) and load *)
(* again (_create_position_from_dict); the calls that follow act on the    *)
(* loaded object, as they do in PositionService.                           *)
(***************************************************************************)

\* repository.save(pos) followed by repository.reload_positions(): svcFile
\* keeps the dictionary written, pos becomes the object loaded from it.
PosSaveReload ==
    /\ svcFile' = [i \in {1} |-> pos]
    /\ pos' = reload_positions([i \in Ids |-> IF i = 1 THEN pos ELSE NoPos])[1]
    /\ posRes' = [op |-> "reload", ok |-> TRUE, level |-> 0, quantity |-> 0,
                  before |-> pos.remaining_quantity]
    /\ UNCHANGED <<closedTotal, partialClosed, svcCache, svcClosed, svcLedger,
                   svcOrders, svcRes, storeVars, extVars>>

RoundTripNext == PosAddTakeProfit \/ PosClose \/ PosSaveReload

SpecRoundTrip == PosInit /\ [][RoundTripNext]_vars

\* C20 (as claimed): the position loaded back after a save has the
\* remaining_quantity, the status and the take-profit list (levels and
\* quantities, in order) of the position that was saved.
C20_RoundTrip ==
    posRes.op = "reload"
    => /\ pos.remaining_quantity = svcFile[1].remaining_quantity
       /\ pos.status = svcFile[1].status
       /\ pos.take_profits = svcFile[1].take_profits

(***************************************************************************)
(* SignalProcessor (signal_processor.py) over PositionService and one      *)
(* store instance.  Every position carries the same asset, strategy,       *)
(* settings and timeframe, so the key filters of _find_matching_positions  *)
(* select by direction only.  Quantities are counted in hundredths of a    *)
(* lot and every entry fills whole lots, which keeps the percentage        *)
(* arithmetic of execute_take_profit exact.  The adapter answers every     *)
(* price and asset lookup, and a market order either fails or fills the    *)
(* quantity asked for.                                                     *)
(***************************************************************************)
Lot == 100
MaxLots == 1
MaxMinQuantity == 40
MaxLeverage == 2
MaxSignals == 3

\* core/config.py: take_profits.three_level and take_profits.four_level
DEFAULT_TP_PERCENTAGES_3 == <<33, 50, 100>>
DEFAULT_TP_PERCENTAGES_4 == <<25, 33, 50, 100>>

\* The altTP values a signal carries: none, or "25-100"
AltTP == {<<>>, <<25, 100>>}

\* SignalProcessor._get_take_profit_config
get_take_profit_config(altTP, max_tp) ==
    IF altTP # <<>> THEN altTP
    ELSE IF max_tp = 4 THEN DEFAULT_TP_PERCENTAGES_4
    ELSE DEFAULT_TP_PERCENTAGES_3

\* Asset rules get_asset_info reports: no constraint, or a minimum quantity
SignalAssetInfo ==
    {[ok |-> TRUE, step_size |-> 0, min_quantity |-> m] :
        m \in {0, MaxMinQuantity}}

AllPrices == [k \in 1..3 |-> TRUE]

\* A place_market_order call: is_isolated is the keyword passed ("None",
\* "True" or "False"), margin_type the position's margin_type at the call.
Order(id, kind, level, quantity, is_isolated, margin_type, ok) ==
    [id |-> id, kind |-> kind, level |-> level, quantity |-> quantity,
     is_isolated |-> is_isolated, margin_type |-> margin_type, ok |-> ok]

\* The margin parameters of a take-profit or close order
\* (position_service.py:305-316 and 430-441)
is_isolated(position) ==
    LET is_margin_position ==
            position.leverage > 1 \/ position.direction = "SHORT"
    IN  IF ~is_margin_position THEN "None"
        ELSE IF position.margin_type = "ISOLATED" THEN "True"
        ELSE "False"

Reloaded(st) == [st EXCEPT !.cache = reload_positions(st.file)]

ServiceFlow(st, outcome, err, p, orders) ==
    [st |-> st, outcome |-> outcome, err |-> err, pos |-> p,
     orders |-> orders]

\* close_position once the order has been answered: the position is
\* persisted if the call got that far (position_service.py:520-524)
close_position_result(l, id, position, ord, r, quantity_to_execute) ==
    ServiceFlow(IF r.update THEN repository_update(l, id, r.pos) ELSE l,
                r.outcome, r.err, r.pos,
                IF r.attempted
                THEN <<Order(id, "CLOSE", 0, quantity_to_execute,
                             is_isolated(position), position.margin_type,
                             ord = "filled")>>
                ELSE <<>>)

\* The quantity of the closing order: remaining_quantity cut down to the
\* step size (position_service.py:452-456)
close_quantity(position, info) ==
    IF position = NoPos THEN 0
    ELSE IF info.ok /\ info.step_size > 0
    THEN (position.remaining_quantity \div info.step_size) * info.step_size
    ELSE position.remaining_quantity

\* close_position on the freshly loaded store l (position_service.py:402 on)
close_position_loaded(l, id, reason, info, ord) ==
    close_position_result(
        l, id, l.cache[id], ord,
        close_position(l.cache[id], reason, info, ord, AllPrices),
        close_quantity(l.cache[id], info))

\* PositionService.close_position(position_id, reason) on store st
service_close_position(st, id, reason, info, ord) ==
    close_position_loaded(Reloaded(st), id, reason, info, ord)

\* Mutant of take_profit_fill: the take profit is recorded and persisted
\* before the order's answer is looked at.
take_profit_fill_recorded(base, prior, id, position, tp_level, quantity_to_execute, ord, a) ==
    LET order == Order(id, "TP", tp_level, quantity_to_execute,
                       is_isolated(position), position.margin_type,
                       ord = "filled")
    IN  IF ~a.ok
        THEN ServiceFlow(base, "raised", a.err, position,
                         Append(prior, order))
        ELSE ServiceFlow(repository_update(base, id, a.pos),
                         IF ord = "failed" THEN "raised" ELSE "returned",
                         IF ord = "failed" THEN "order failed" ELSE "none",
                         a.pos, Append(prior, order))

\* execute_take_profit from the market order on (position_service.py:
\* 318-353): base is the store, prior the orders placed so far, a the answer
\* of position.add_take_profit.
take_profit_fill(base, prior, id, position, tp_level, quantity_to_execute, ord, a) ==
    LET is_last_tp == tp_level = position.take_profit_max
        order == Order(id, "TP", tp_level, quantity_to_execute,
                       is_isolated(position), position.margin_type,
                       ord = "filled")
        p2 == IF ~is_closed(a.pos) /\ is_last_tp
              THEN close(a.pos, 0, "Manual close").pos ELSE a.pos
    IN  IF ord = "failed"
        THEN ServiceFlow(base, "raised", "order failed", position,
                         Append(prior, order))
        ELSE IF ~a.ok
        THEN ServiceFlow(base, "raised", a.err, position,
                         Append(prior, order))
        ELSE ServiceFlow(repository_update(base, id, p2), "returned",
                         "none", p2, Append(prior, order))

\* The final level below the minimum quantity (position_service.py:292-301):
\* the answer of close_position is returned; a close_position that raised
\* inside the inner try is swallowed and the take profit goes on.
take_profit_auto_close(id, position, tp_level, quantity_to_execute, ord, a, nested) ==
    IF nested.outcome = "returned" THEN nested
    ELSE take_profit_fill(nested.st, nested.orders, id, position, tp_level,
                          quantity_to_execute, ord, a)

\* execute_take_profit once the quantity is adjusted to the asset's rules
\* (position_service.py:283-301)
take_profit_adjusted(l, id, position, tp_level, quantity_to_execute, info, ord, ordClose) ==
    LET is_last_tp == tp_level = position.take_profit_max
        belowMin == info.ok /\ quantity_to_execute < info.min_quantity
    IN  IF belowMin /\ ~is_last_tp
        THEN ServiceFlow(l, "returned", "none", position, <<>>)
        ELSE IF belowMin
        THEN take_profit_auto_close(
                 id, position, tp_level, quantity_to_execute, ord,
                 add_take_profit(position, quantity_to_execute, tp_level),
                 service_close_position(
                     l, id, "Auto-closed due to small adjusted quantity",
                     info, ordClose))
        ELSE take_profit_fill(
                 l, <<>>, id, position, tp_level, quantity_to_execute, ord,
                 add_take_profit(position, quantity_to_execute, tp_level))

\* execute_take_profit on the freshly loaded store l
\* (position_service.py:226-281)
take_profit_loaded(l, id, tp_level, tp_percentages, info, ord, ordClose) ==
    LET position == l.cache[id]
        Raise(e) == ServiceFlow(l, "raised", e, position, <<>>)
    IN  IF position = NoPos THEN Raise("Position not found")
        ELSE IF is_closed(position) THEN Raise("Position already closed")
        ELSE IF \E i \in DOMAIN position.take_profits :
                    position.take_profits[i].level >= tp_level
        THEN Raise("TP level or higher has already been executed")
        ELSE IF tp_level \notin DOMAIN tp_percentages
        THEN Raise("No percentage defined for TP level")
        ELSE
        LET prev_tp_percentage ==
                IF tp_level > 1 /\ (tp_level - 1) \in DOMAIN tp_percentages
                THEN tp_percentages[tp_level - 1] ELSE 0
            current_percentage == tp_percentages[tp_level] - prev_tp_percentage
            tp_quantity ==
                (current_percentage * position.initial_quantity) \div 100
            quantity0 == Min(tp_quantity, position.remaining_quantity)
        IN  IF current_percentage <= 0
            THEN Raise("Invalid TP percentage configuration")
            ELSE IF quantity0 <= 0 THEN Raise("No quantity available for TP")
            ELSE take_profit_adjusted(
                     l, id, position, tp_level,
                     IF info.ok /\ info.step_size > 0
                     THEN (quantity0 \div info.step_size) * info.step_size
                     ELSE quantity0,
                     info, ord, ordClose)

\* PositionService.execute_take_profit(position_id, tp_level, tp_percentages)
\* on store st; ord answers the take-profit order, ordClose the order of the
\* close_position call made for a final level below the minimum quantity.
execute_take_profit(st, id, tp_level, tp_percentages, info, ord, ordClose) ==
    take_profit_loaded(Reloaded(st), id, tp_level, tp_percentages, info, ord,
                       ordClose)

\* The ids of S in ascending order: positions sit in the cache in the order
\* they were opened.
RECURSIVE Ascending(_)
Ascending(S) ==
    IF S = {} THEN <<>>
    ELSE LET m == CHOOSE x \in S : \A y \in S : x <= y
         IN  <<m>> \o Ascending(S \ {m})

\* SignalProcessor._find_matching_positions with a direction filter: the
\* open positions of the cache in that direction
find_matching_positions(st, direction) ==
    {i \in Ids : /\ st.cache[i] # NoPos
                 /\ ~is_closed(st.cache[i])
                 /\ st.cache[i].direction = direction}

\* Mutant of find_position_for_tp: on a tie the newest position is taken.
find_position_for_tp_newest(st, positions, tp_level) ==
    LET candidates ==
            {i \in positions :
                \A k \in DOMAIN st.cache[i].take_profits :
                    st.cache[i].take_profits[k].level < tp_level}
        n(i) == Len(st.cache[i].take_profits)
    IN  IF candidates = {} THEN 0
        ELSE CHOOSE i \in candidates :
                \A j \in candidates : n(i) > n(j) \/ (n(i) = n(j) /\ i >= j)

\* SignalProcessor._find_position_for_tp: among the positions without a level
\* >= tp_level, the one with most take profits, the oldest on a tie; 0 if none
find_position_for_tp(st, positions, tp_level) ==
    LET candidates ==
            {i \in positions :
                \A k \in DOMAIN st.cache[i].take_profits :
                    st.cache[i].take_profits[k].level < tp_level}
        n(i) == Len(st.cache[i].take_profits)
    IN  IF candidates = {} THEN 0
        ELSE CHOOSE i \in candidates :
                \A j \in candidates : n(i) > n(j) \/ (n(i) = n(j) /\ i <= j)

NoSignal ==
    [op |-> "none", success |-> TRUE, direction |-> "LONG", level |-> 0,
     id |-> 0, before |-> NoPos, pos |-> NoPos, trace |-> <<>>,
     early |-> FALSE, action_taken |-> "none", closed_opposite |-> FALSE,
     targets |-> {}, attempts |-> <<>>, failed |-> {}, orders |-> <<>>,
     allowed |-> TRUE, opened |-> 0, seq |-> 0]

Loop(st, attempts, failed, orders) ==
    [st |-> st, attempts |-> attempts, failed |-> failed, orders |-> orders]

\* One iteration of a closing loop: r is what close_position answered for id
closed_one(acc, id, r) ==
    Loop(r.st, Append(acc.attempts, id),
         IF r.outcome = "raised" THEN acc.failed \cup {id} ELSE acc.failed,
         acc.orders \o r.orders)

\* Mutant of close_each: the loop is left at the first closure that raises.
RECURSIVE close_each_abort(_, _, _, _, _)
close_each_abort(acc, ids, reason, info, failing) ==
    IF ids = <<>> THEN acc
    ELSE LET n == closed_one(
                      acc, Head(ids),
                      service_close_position(
                          acc.st, Head(ids), reason, info,
                          IF Head(ids) \in failing THEN "failed"
                          ELSE "filled"))
         IN  IF Head(ids) \in n.failed THEN n
             ELSE close_each_abort(n, Tail(ids), reason, info, failing)

\* The closing loops of _process_entry_signal (236-244) and
\* _process_stop_signal (565-582): close_position for every position of the
\* list, an exception being recorded and the loop going on; failing are the
\* ids whose market order the exchange rejects.
RECURSIVE close_each(_, _, _, _, _)
close_each(acc, ids, reason, info, failing) ==
    IF ids = <<>> THEN acc
    ELSE close_each(
             closed_one(
                 acc, Head(ids),
                 service_close_position(
                     acc.st, Head(ids), reason, info,
                     IF Head(ids) \in failing THEN "failed" ELSE "filled")),
             Tail(ids), reason, info, failing)

UnusedIn(st, i) ==
    st.cache[i] = NoPos /\ st.file[i] = NoPos /\ st.closed[i] = 0

Outcome(st, r) == [st |-> st, res |-> r]

\* _process_entry_signal after the closing loop (signal_processor.py:
\* 246-292): c is the state the loop left, o the answer of open_position.
entry_after_close(direction, settings, quantity, ord, positions_to_close, c, o) ==
    LET closed_opposite == \E i \in positions_to_close : i \notin c.failed
        allowed == IF direction = "LONG" THEN settings.allow_long_trades
                   ELSE settings.allow_short_trades
        base == [NoSignal EXCEPT !.op = "entry", !.direction = direction,
                                 !.allowed = allowed,
                                 !.targets = positions_to_close,
                                 !.attempts = c.attempts,
                                 !.failed = c.failed,
                                 !.orders = c.orders,
                                 !.closed_opposite = closed_opposite]
        id == IF \E i \in Ids : UnusedIn(c.st, i)
              THEN CHOOSE i \in Ids :
                      UnusedIn(c.st, i)
                          /\ \A j \in Ids : UnusedIn(c.st, j) => i <= j
              ELSE 0
        entry == Order(IF o.outcome = "returned" THEN id ELSE 0, "ENTRY", 0,
                       quantity, o.is_isolated,
                       IF o.outcome = "returned" THEN o.pos.margin_type
                       ELSE "None",
                       ord = "filled")
        saved == [c.st.cache EXCEPT ![id] = o.pos]
    IN  IF ~allowed
        THEN Outcome(c.st, [base EXCEPT !.action_taken = "ignored"])
        ELSE IF o.outcome = "raised"
        THEN Outcome(c.st,
                     [base EXCEPT !.success = FALSE,
                                  !.orders = IF o.attempted
                                             THEN Append(@, entry) ELSE @])
        ELSE Outcome([c.st EXCEPT !.cache = saved, !.file = saved],
                     [base EXCEPT !.action_taken = "opened", !.opened = id,
                                  !.id = id, !.pos = o.pos,
                                  !.orders = Append(@, entry)])

\* _process_entry_signal once the opposite positions are found
\* (signal_processor.py:222-244)
entry_close_opposite(l, direction, settings, quantity, ord, tpmax, info, failing, positions_to_close) ==
    entry_after_close(
        direction, settings, quantity, ord, positions_to_close,
        close_each(Loop(l, <<>>, {}, <<>>), Ascending(positions_to_close),
                   "Closed due to opposite signal", info, failing),
        open_position(direction, quantity, ord, quantity, tpmax, settings))

\* _process_entry_signal on the freshly loaded store l
entry_loaded(l, direction, settings, quantity, ord, tpmax, info, failing) ==
    entry_close_opposite(
        l, direction, settings, quantity, ord, tpmax, info, failing,
        find_matching_positions(
            l, IF direction = "LONG" THEN "SHORT" ELSE "LONG"))

\* SignalProcessor.process_signal for a LONG / SHORT command
\* (_process_entry_signal)
process_entry_signal(st0, direction, settings, quantity, ord, tpmax, info, failing) ==
    entry_loaded(Reloaded(st0), direction, settings, quantity, ord, tpmax,
                 info, failing)

Attempt(level, r) ==
    [level |-> level, outcome |-> r.outcome, closed |-> is_closed(r.pos),
     orders |-> r.orders]

\* One iteration of the loop over the missing levels: r is what
\* execute_take_profit answered for the level.  An exception is logged and
\* the loop goes on (431-436); a position returned CLOSED ends the signal
\* (416-430).
missing_level_done(acc, level, r) ==
    IF r.outcome = "raised"
    THEN [acc EXCEPT !.st = r.st,
                     !.trace = Append(@, Attempt(level, r))]
    ELSE [st |-> r.st, pos |-> r.pos,
          trace |-> Append(acc.trace, Attempt(level, r)),
          early |-> is_closed(r.pos)]

\* The loop over the missing levels (signal_processor.py:382-436); acc holds
\* the store, updated_position, the attempts so far and whether the
\* processor returned from inside the loop.  failLevel is the level whose
\* take-profit order the exchange rejects (0: none).
RECURSIVE execute_missing(_, _, _, _, _, _, _)
execute_missing(acc, id, levels, tp_config, info, failLevel, ordClose) ==
    IF levels = <<>> \/ acc.early THEN acc
    ELSE execute_missing(
             missing_level_done(
                 acc, Head(levels),
                 execute_take_profit(
                     acc.st, id, Head(levels), tp_config, info,
                     IF Head(levels) = failLevel THEN "failed" ELSE "filled",
                     ordClose)),
             id, Tail(levels), tp_config, info, failLevel, ordClose)

RECURSIVE TraceOrders(_)
TraceOrders(t) ==
    IF t = <<>> THEN <<>> ELSE Head(t).orders \o TraceOrders(Tail(t))

\* _process_take_profit_signal after the forced close_position
\* (signal_processor.py:451-476): c is what close_position answered
take_profit_force_closed(sel, id, r, t, c) ==
    Outcome(c.st, [sel EXCEPT !.success = (c.outcome = "returned"),
                              !.pos = IF c.outcome = "returned"
                                      THEN c.pos ELSE r.pos,
                              !.trace = t,
                              !.attempts = <<id>>,
                              !.failed = IF c.outcome = "raised"
                                         THEN {id} ELSE {},
                              !.orders = TraceOrders(t) \o c.orders])

\* _process_take_profit_signal after the requested level
\* (signal_processor.py:439-501): m is the state the missing-level loop
\* left, r what execute_take_profit answered for the requested level
take_profit_requested_done(sel, id, tp_level, info, ordClose, m, r) ==
    LET t == Append(m.trace, Attempt(tp_level, r))
        should_be_closed == \/ tp_level = r.pos.take_profit_max
                            \/ r.pos.remaining_quantity <= 0
    IN  IF r.outcome = "raised"
        THEN Outcome(r.st, [sel EXCEPT !.success = FALSE, !.pos = m.pos,
                                       !.trace = t,
                                       !.orders = TraceOrders(t)])
        ELSE IF should_be_closed /\ ~is_closed(r.pos)
        THEN take_profit_force_closed(
                 sel, id, r, t,
                 service_close_position(r.st, id, "Force-closed after TP",
                                        info, ordClose))
        ELSE Outcome(r.st, [sel EXCEPT !.pos = r.pos, !.trace = t,
                                       !.orders = TraceOrders(t)])

\* _process_take_profit_signal after the missing levels (416-445): a loop
\* that met a CLOSED position has returned, otherwise the requested level
\* is executed
take_profit_missing_done(sel, id, tp_level, tp_config, info, failLevel, ordClose, m) ==
    IF m.early
    THEN Outcome(m.st, [sel EXCEPT !.pos = m.pos, !.trace = m.trace,
                                   !.early = TRUE,
                                   !.orders = TraceOrders(m.trace)])
    ELSE take_profit_requested_done(
             sel, id, tp_level, info, ordClose, m,
             execute_take_profit(
                 m.st, id, tp_level, tp_config, info,
                 IF tp_level = failLevel THEN "failed" ELSE "filled",
                 ordClose))

\* _process_take_profit_signal once the position is selected
\* (signal_processor.py:340-436); id = 0: no position found
take_profit_selected(l, direction, tp_level, altTP, info, failLevel, ordClose, id) ==
    LET position_to_tp == l.cache[id]
        tp_config == get_take_profit_config(altTP,
                                            position_to_tp.take_profit_max)
        last_tp_executed == last_tp_level(position_to_tp)
        missing_tp_levels ==
            [n \in 1..(tp_level - 1 - last_tp_executed) |->
                last_tp_executed + n]
        base == [NoSignal EXCEPT !.op = "take_profit",
                                 !.direction = direction,
                                 !.level = tp_level]
    IN  IF id = 0
        THEN Outcome(l, [base EXCEPT !.success = FALSE])
        ELSE take_profit_missing_done(
                 [base EXCEPT !.id = id, !.before = position_to_tp],
                 id, tp_level, tp_config, info, failLevel, ordClose,
                 execute_missing(
                     [st |-> l, pos |-> position_to_tp, trace |-> <<>>,
                      early |-> FALSE],
                     id, missing_tp_levels, tp_config, info, failLevel,
                     ordClose))

\* SignalProcessor.process_signal for a TP n / TPS n command
\* (_process_take_profit_signal)
process_take_profit_signal(st0, direction, tp_level, altTP, info, failLevel, ordClose) ==
    take_profit_selected(
        Reloaded(st0), direction, tp_level, altTP, info, failLevel, ordClose,
        find_position_for_tp(
            Reloaded(st0),
            find_matching_positions(Reloaded(st0), direction), tp_level))

\* _process_stop_signal after the closing loop (signal_processor.py:584-589)
stop_after_close(target_direction, positions_to_close, c) ==
    Outcome(c.st, [NoSignal EXCEPT !.op = "stop",
                                   !.direction = target_direction,
                                   !.targets = positions_to_close,
                                   !.attempts = c.attempts,
                                   !.failed = c.failed,
                                   !.orders = c.orders])

\* _process_stop_signal once the target positions are found (541-582)
stop_close_targets(l, target_direction, info, failing, positions_to_close) ==
    stop_after_close(
        target_direction, positions_to_close,
        close_each(Loop(l, <<>>, {}, <<>>), Ascending(positions_to_close),
                   "Closed by STOP signal", info, failing))

\* SignalProcessor.process_signal for a STOP L / STOP S command
\* (_process_stop_signal)
process_stop_signal(st0, target_direction, info, failing) ==
    stop_close_targets(
        Reloaded(st0), target_direction, info, failing,
        find_matching_positions(Reloaded(st0), target_direction))

(***************************************************************************)
(* SpecSignal: entry, take-profit and stop signals processed one after the *)
(* other against a store that starts empty.                                *)
(***************************************************************************)
Directions == {"LONG", "SHORT"}

Current == Store(svcCache, svcFile, svcClosed, svcLedger)

\* The state a processed signal leaves: the store, the result (numbered in
\* the order of arrival), and the orders the exchange has seen for each
\* position.
Commit(r) ==
    /\ svcCache' = r.st.cache
    /\ svcFile' = r.st.file
    /\ svcClosed' = r.st.closed
    /\ svcLedger' = r.st.ledger
    /\ svcRes' = [r.res EXCEPT !.seq = svcRes.seq + 1]
    /\ svcOrders' =
          [i \in Ids |->
              svcOrders[i] \cup {r.res.orders[k] :
                                    k \in {n \in DOMAIN r.res.orders :
                                              r.res.orders[n].id = i}}]
    /\ UNCHANGED <<posVars, storeVars, extVars>>

SigInit ==
    /\ PosIdle
    /\ StoreIdle
    /\ ExtIdle
    /\ svcCache = [i \in Ids |-> NoPos]
    /\ svcFile = [i \in Ids |-> NoPos]
    /\ svcClosed = [i \in Ids |-> 0]
    /\ svcLedger = [i \in Ids |-> 0]
    /\ svcOrders = [i \in Ids |-> {}]
    /\ svcRes = NoSignal

NoRules == [ok |-> TRUE, step_size |-> 0, min_quantity |-> 0]

\* What the rest of an entry signal can be: the lots calculate_optimal_quantity
\* returns, the answer to the entry order, maxTP and the margin settings.
\* The inputs the processing never reads are fixed, so that each behaviour
\* is drawn once.
EntryChoices(direction, allowed) ==
    {c \in [lots : 0..MaxLots, ord : {"failed", "filled"}, tpmax : 1..MaxTp,
            use_margin_for_longs : BOOLEAN,
            margin_type : {"CROSSED", "ISOLATED"},
            default_leverage : 1..MaxLeverage] :
        LET margin == allowed /\ (direction = "SHORT"
                                    \/ c.use_margin_for_longs)
        IN  /\ direction = "SHORT" => ~c.use_margin_for_longs
            /\ ~allowed => /\ ~c.use_margin_for_longs
                           /\ c.lots = 1 /\ c.ord = "filled"
            /\ ~margin => c.margin_type = "CROSSED" /\ c.default_leverage = 1
            /\ c.lots = 0 => c.ord = "filled"
            /\ (~allowed \/ c.lots = 0 \/ c.ord = "failed") => c.tpmax = 1}

\* A LONG / SHORT signal.  allowed is the live allow_long_trades or
\* allow_short_trades flag of the signal's direction.
SigEntry ==
    /\ svcRes.seq < MaxSignals
    /\ \E direction \in Directions, allowed \in BOOLEAN :
          LET opposite == find_matching_positions(
                              Reloaded(Current),
                              IF direction = "LONG" THEN "SHORT" ELSE "LONG")
          IN  \E failing \in SUBSET opposite,
                 info \in IF opposite = {} THEN {NoRules}
                          ELSE SignalAssetInfo,
                 c \in EntryChoices(direction, allowed) :
                 LET settings ==
                         Settings(direction = "LONG" => allowed,
                                  direction = "SHORT" => allowed,
                                  c.use_margin_for_longs, c.margin_type,
                                  c.default_leverage)
                     r == process_entry_signal(
                              Current, direction, settings, c.lots * Lot,
                              c.ord, c.tpmax, info, failing)
                 IN  /\ r.res.action_taken = "opened" => r.res.opened # 0
                     /\ Commit(r)

\* A TP n / TPS n signal
SigTakeProfit ==
    /\ svcRes.seq < MaxSignals
    /\ \E direction \in Directions, tp_level \in 1..(MaxTp + 1) :
          IF find_position_for_tp(
                 Reloaded(Current),
                 find_matching_positions(Reloaded(Current), direction),
                 tp_level) = 0
          THEN Commit(process_take_profit_signal(
                          Current, direction, tp_level, <<>>, NoRules, 0,
                          "filled"))
          ELSE \E altTP \in AltTP, info \in SignalAssetInfo,
                  failLevel \in 0..tp_level, ordClose \in {"failed", "filled"} :
                  Commit(process_take_profit_signal(
                             Current, direction, tp_level, altTP, info,
                             failLevel, ordClose))

\* A STOP L / STOP S signal
SigStop ==
    /\ svcRes.seq < MaxSignals
    /\ \E target_direction \in Directions :
          LET targets == find_matching_positions(Reloaded(Current),
                                                 target_direction)
          IN  \E failing \in SUBSET targets,
                 info \in IF targets = {} THEN {NoRules}
                          ELSE SignalAssetInfo :
                 Commit(process_stop_signal(Current, target_direction, info,
                                            failing))

SigNext == SigEntry \/ SigTakeProfit \/ SigStop

SpecSignal == SigInit /\ [][SigNext]_vars

\* The open positions of a direction as a signal finds them after its reload
OpenInFile(direction) ==
    {i \in Ids : /\ svcFile[i] # NoPos
                 /\ ~is_closed(create_position_from_dict(svcFile[i]))
                 /\ svcFile[i].direction = direction}

\* How often a level is recorded on a position
Recorded(p, level) ==
    Cardinality({i \in DOMAIN p.take_profits : p.take_profits[i].level = level})

\* C13 (as claimed): a take-profit signal for level L that selects a
\* position whose last executed level is k < L-1 attempts the levels k+1,
\* k+2, ... in ascending order and L last, attempts nothing after an
\* execution that returned the position CLOSED, and, when no exchange order
\* failed, ends with each of the levels k+1..L recorded exactly once.  The
\* last part is taken where it favours the claim: for a level within
\* take_profit_max and a signal that did not stop early.
C13_MissingLevelsFirst ==
    LET k == last_tp_level(svcRes.before)
        L == svcRes.level
        t == svcRes.trace
    IN  (svcRes.op = "take_profit" /\ svcRes.id # 0 /\ k < L - 1)
        => /\ Len(t) <= L - k
           /\ \A i \in DOMAIN t : t[i].level = k + i
           /\ \A i \in DOMAIN t :
                 (t[i].outcome = "returned" /\ t[i].closed) => i = Len(t)
           /\ (/\ \A i \in DOMAIN svcRes.orders : svcRes.orders[i].ok
               /\ ~svcRes.early
               /\ L <= svcRes.before.take_profit_max)
              => \A level \in (k + 1)..L : Recorded(svcRes.pos, level) = 1

\* C14 (as claimed): after a take-profit signal for the selected position's
\* take_profit_max has been processed with success, that position is CLOSED,
\* recorded in the closed partition and no longer in the open partition.
C14_FinalLevelPersistedClosed ==
    (/\ svcRes.op = "take_profit"
     /\ svcRes.id # 0
     /\ svcRes.success
     /\ svcRes.level = svcRes.before.take_profit_max)
    => /\ svcRes.pos.status = "CLOSED"
       /\ svcClosed[svcRes.id] = 1
       /\ svcFile[svcRes.id] = NoPos

\* C15 (as claimed): an entry signal of a disallowed direction that finds
\* OPEN positions of the opposite direction leaves every one of them closed
\* (in the closed partition, out of the open partition), places no entry
\* order, creates no position, and answers success = true, action_taken =
\* "ignored", closed_opposite = true.
C15_DisallowedEntryClosesOpposite ==
    (svcRes.op = "entry" /\ ~svcRes.allowed /\ svcRes.targets # {})
    => /\ svcRes.success
       /\ svcRes.action_taken = "ignored"
       /\ svcRes.closed_opposite
       /\ svcRes.opened = 0
       /\ \A k \in DOMAIN svcRes.orders : svcRes.orders[k].kind # "ENTRY"
       /\ \A i \in svcRes.targets : svcClosed[i] = 1 /\ svcFile[i] = NoPos

C19_MarginParamsInherited ==
    \A i \in Ids : \A e \in svcOrders[i], o \in svcOrders[i] :
        (e.kind = "ENTRY" /\ e.ok /\ o.kind \in {"TP", "CLOSE"})
        => /\ e.margin_type = "ISOLATED" => o.is_isolated = "True"
           /\ e.margin_type = "CROSSED" => o.is_isolated # "True"


(***************************************************************************)
(* Selection of the position a take-profit signal acts on.                 *)
(***************************************************************************)
\* The positions a TP signal of the direction and level may select, as the
\* partition file holds them before the signal: open, and no executed take
\* profit of level >= level.  Ids are allotted in ascending order and never
\* reused, so the lower id is the older timestamp.
Qualifying(direction, level) ==
    {i \in OpenInFile(direction) :
        \A k \in DOMAIN svcFile[i].take_profits :
            svcFile[i].take_profits[k].level < level}

RECURSIVE Sold(_, _)
Sold(orders, id) ==
    IF orders = <<>> THEN 0
    ELSE (IF Head(orders).id = id /\ Head(orders).kind = "TP"
                                 /\ Head(orders).ok
          THEN Head(orders).quantity ELSE 0) + Sold(Tail(orders), id)

\* The last signal filled a take profit at the final level of its position
\* and left at least the exchange minimum unsold
FinalLevelLeftQuantity ==
    /\ svcRes.op = "take_profit"
    /\ svcRes.id # 0
    /\ \E k \in DOMAIN svcRes.orders :
          /\ svcRes.orders[k].kind = "TP" /\ svcRes.orders[k].ok
          /\ svcRes.orders[k].level = svcRes.before.take_profit_max
    /\ svcRes.before.remaining_quantity - Sold(svcRes.orders, svcRes.id)
          >= MaxMinQuantity

\* C33 (as claimed): when a take profit at a position's final level left a
\* quantity of at least the exchange minimum and the position is then
\* recorded CLOSED (with nothing remaining), a closing market order for the
\* quantity that was left has been placed after the take-profit order.
C33_FinalCloseHasOrder ==
    (FinalLevelLeftQuantity /\ is_closed(svcRes.pos))
    => \E k \in DOMAIN svcRes.orders :
          /\ svcRes.orders[k].kind = "CLOSE"
          /\ svcRes.orders[k].id = svcRes.id
          /\ svcRes.orders[k].quantity =
                svcRes.before.remaining_quantity
                    - Sold(svcRes.orders, svcRes.id)

\* C38 (as claimed): after any sequence of signals the take-profit levels
\* recorded on a position are 1..k for some k, none skipped: on every
\* position of the open partition and on the position the last take-profit
\* signal answered with.
C38_LevelsContiguous ==
    /\ \A i \in Ids :
          svcFile[i] # NoPos
          => Levels(svcFile[i]) = 1..Len(svcFile[i].take_profits)
    /\ (svcRes.op = "take_profit" /\ svcRes.id # 0)
       => Levels(svcRes.pos) = 1..Len(svcRes.pos.take_profits)

(***************************************************************************)
(* SpecCalls: open_position, execute_take_profit and close_position called *)
(* one after the other on one PositionService over one store that starts   *)
(* empty, with every answer the adapter can give.                          *)
(***************************************************************************)

MaxCalls == 3
MaxStepSize == 30

\* The percentage tables a caller hands to execute_take_profit: the default
\* three-level table and the table of an altTP "25-100"
CallTables == {DEFAULT_TP_PERCENTAGES_3, <<25, 100>>}

\* What get_asset_info answers: an error, or a step size and a minimum
CallAssetInfo ==
    {[ok |-> FALSE, step_size |-> 0, min_quantity |-> 0]} \cup
    {[ok |-> TRUE, step_size |-> s, min_quantity |-> m] :
        s \in {0, MaxStepSize}, m \in {0, MaxMinQuantity}}

NoServiceCall ==
    [op |-> "none", id |-> 0, level |-> 0, table |-> <<>>,
     info |-> [ok |-> TRUE, step_size |-> 0, min_quantity |-> 0],
     outcome |-> "returned", err |-> "none", before |-> NoPos,
     stored |-> NoPos, closedBefore |-> 0, pos |-> NoPos, orders |-> <<>>,
     seq |-> 0]

CallInit ==
    /\ PosIdle
    /\ StoreIdle
    /\ ExtIdle
    /\ svcCache = [i \in Ids |-> NoPos]
    /\ svcFile = [i \in Ids |-> NoPos]
    /\ svcClosed = [i \in Ids |-> 0]
    /\ svcLedger = [i \in Ids |-> 0]
    /\ svcOrders = [i \in Ids |-> {}]
    /\ svcRes = NoServiceCall

\* The store and the history after a service call that answered r
CallCommit(op, id, level, table, info, r) ==
    /\ svcCache' = r.st.cache
    /\ svcFile' = r.st.file
    /\ svcClosed' = r.st.closed
    /\ svcLedger' = r.st.ledger
    /\ svcOrders' =
          [i \in Ids |->
              svcOrders[i] \cup {r.orders[k] :
                                    k \in {n \in DOMAIN r.orders :
                                              r.orders[n].id = i}}]
    /\ svcRes' = [op |-> op, id |-> id, level |-> level, table |-> table,
                  info |-> info, outcome |-> r.outcome, err |-> r.err,
                  before |-> reload_positions(svcFile)[id],
                  stored |-> svcFile[id], closedBefore |-> svcClosed[id],
                  pos |-> r.pos, orders |-> r.orders,
                  seq |-> svcRes.seq + 1]
    /\ UNCHANGED <<posVars, storeVars, extVars>>

\* The exchange fills no order of quantity zero
NoEmptyFill(orders) ==
    \A k \in DOMAIN orders : orders[k].quantity = 0 => ~orders[k].ok

\* PositionService.open_position(asset, LONG, amount, ...) under SpotSettings,
\* the order filled for one lot
CallOpenPosition ==
    /\ svcRes.seq < MaxCalls
    /\ \E id \in Ids, tpmax \in 1..MaxTp :
          /\ UnusedIn(Current, id)
          /\ \A j \in Ids : UnusedIn(Current, j) => id <= j
          /\ LET o == open_position("LONG", Lot, "filled", Lot, tpmax,
                                    SpotSettings)
                 saved == [svcCache EXCEPT ![id] = o.pos]
             IN  CallCommit("open_position", id, 0, <<>>,
                            NoServiceCall.info,
                            ServiceFlow([Current EXCEPT !.cache = saved,
                                                        !.file = saved],
                                        o.outcome, o.err, o.pos,
                                        <<Order(id, "ENTRY", 0, Lot,
                                                o.is_isolated,
                                                o.pos.margin_type, TRUE)>>))

\* PositionService.execute_take_profit(position_id, tp_level, tp_percentages)
CallExecuteTakeProfit ==
    /\ svcRes.seq < MaxCalls
    /\ \E id \in Ids, tp_level \in 1..(MaxTp + 1),
          tp_percentages \in CallTables, info \in CallAssetInfo,
          ord \in {"failed", "filled"}, ordClose \in {"failed", "filled"} :
          LET r == execute_take_profit(Current, id, tp_level, tp_percentages,
                                       info, ord, ordClose)
          IN  /\ NoEmptyFill(r.orders)
              /\ CallCommit("execute_take_profit", id, tp_level,
                            tp_percentages, info, r)

\* PositionService.close_position(position_id, reason)
CallClosePosition ==
    /\ svcRes.seq < MaxCalls
    /\ \E id \in Ids, info \in CallAssetInfo, ord \in {"failed", "filled"} :
          LET r == service_close_position(Current, id, "requested", info,
                                          ord)
          IN  /\ NoEmptyFill(r.orders)
              /\ CallCommit("close_position", id, 0, <<>>, info, r)

CallNext == CallOpenPosition \/ CallExecuteTakeProfit \/ CallClosePosition

SpecCalls == CallInit /\ [][CallNext]_vars

\* The quantity execute_take_profit arrives at for a level, cut down to the
\* step size (position_service.py:226-281); ok is FALSE when the call is
\* refused before it gets there.
take_profit_quantity(position, tp_level, tp_percentages, info) ==
    IF \/ position = NoPos
       \/ is_closed(position)
       \/ \E i \in DOMAIN position.take_profits :
             position.take_profits[i].level >= tp_level
       \/ tp_level \notin DOMAIN tp_percentages
    THEN [ok |-> FALSE, quantity |-> 0]
    ELSE LET prev_tp_percentage ==
                 IF tp_level > 1 THEN tp_percentages[tp_level - 1] ELSE 0
             current_percentage ==
                 tp_percentages[tp_level] - prev_tp_percentage
             quantity0 ==
                 Min((current_percentage * position.initial_quantity)
                         \div 100,
                     position.remaining_quantity)
         IN  IF current_percentage <= 0 \/ quantity0 <= 0
             THEN [ok |-> FALSE, quantity |-> 0]
             ELSE [ok |-> TRUE,
                   quantity |->
                       IF info.ok /\ info.step_size > 0
                       THEN (quantity0 \div info.step_size) * info.step_size
                       ELSE quantity0]

\* The last call was an execute_take_profit whose quantity, cut down to the
\* step size, is below the asset's minimum quantity
BelowMinimumCall ==
    /\ svcRes.op = "execute_take_profit"
    /\ svcRes.info.ok
    /\ LET q == take_profit_quantity(svcRes.before, svcRes.level,
                                     svcRes.table, svcRes.info)
       IN  q.ok /\ q.quantity < svcRes.info.min_quantity

\* C31 (as claimed): an execute_take_profit whose step-truncated quantity
\* is below the asset's minimum quantity places no order and returns and
\* persists the position unchanged when the level is not the final one, and
\* on the final level places no take-profit order, records no take-profit
\* and, when it returns, has the position closed by close_position.
C31_BelowMinimum ==
    BelowMinimumCall
    => IF svcRes.level # svcRes.before.take_profit_max
       THEN /\ svcRes.outcome = "returned"
            /\ svcRes.orders = <<>>
            /\ svcRes.pos = svcRes.before
            /\ svcFile[svcRes.id] = svcRes.stored
            /\ svcClosed[svcRes.id] = svcRes.closedBefore
       ELSE /\ \A k \in DOMAIN svcRes.orders : svcRes.orders[k].kind # "TP"
            /\ svcRes.pos.take_profits = svcRes.before.take_profits
            /\ svcRes.outcome = "returned"
               => is_closed(svcRes.pos) /\ svcClosed[svcRes.id] = 1


\* The last call was an execute_take_profit whose take-profit market order
\* the exchange rejected
FailedTakeProfitOrder ==
    /\ svcRes.op = "execute_take_profit"
    /\ \E k \in DOMAIN svcRes.orders :
          svcRes.orders[k].kind = "TP" /\ ~svcRes.orders[k].ok

\* C32: an execute_take_profit whose take-profit market order fails raises
\* the error and leaves the persisted position as it was: the record of the
\* open partition (take_profits, remaining_quantity, status) and the closed
\* partition are what they were before the call.
C32_FailedOrderChangesNothing ==
    FailedTakeProfitOrder
    => /\ svcRes.outcome = "raised"
       /\ svcFile[svcRes.id] = svcRes.stored
       /\ svcClosed[svcRes.id] = svcRes.closedBefore
       /\ svcCache[svcRes.id] = svcRes.before

\* A take-profit order rejected for a position that already has one level
C32_Witness ==
    /\ FailedTakeProfitOrder
    /\ svcRes.level = 2
    /\ Levels(svcRes.stored) = {1}
    /\ svcRes.stored.remaining_quantity > 0

\* C37 (as claimed): execute_take_profit places no take-profit order for a
\* level above the position's take_profit_max, whatever percentage table it
\* is given, and every take-profit order it places and the exchange fills
\* is recorded as a take profit of that level on the position it returns.
C37_NoOrderAboveMax ==
    svcRes.op = "execute_take_profit"
    => \A k \in DOMAIN svcRes.orders :
          svcRes.orders[k].kind = "TP"
          => /\ svcRes.orders[k].level <= svcRes.before.take_profit_max
             /\ svcRes.orders[k].ok
                => /\ svcRes.outcome = "returned"
                   /\ svcRes.orders[k].level \in Levels(svcRes.pos)

\* The last call was a close_position of an OPEN position with quantity
\* left during which get_asset_info failed
CloseWithoutAssetInfo ==
    /\ svcRes.op = "close_position"
    /\ ~svcRes.info.ok
    /\ svcRes.before # NoPos
    /\ ~is_closed(svcRes.before)
    /\ svcRes.before.remaining_quantity > 0

\* C34 (as claimed): a close_position during which get_asset_info fails
\* goes on with the original quantity: it places the closing market order
\* for the position's full remaining_quantity.
C34_CloseGoesOnWithoutAssetInfo ==
    CloseWithoutAssetInfo
    => \E k \in DOMAIN svcRes.orders :
          /\ svcRes.orders[k].kind = "CLOSE"
          /\ svcRes.orders[k].quantity = svcRes.before.remaining_quantity

(***************************************************************************)
(* The file store: FilePositionRepository instances in two processes, the  *)
(* reconciliation routine, the maintenance pass, crash and restart.        *)
(*                                                                         *)
(* A partition file is [st, recs]: st is "ok" (complete JSON holding       *)
(* recs), "empty" (zero bytes) or "partial" (a prefix of a dump, not       *)
(* JSON).  A record is the status of the position with that id: "OPEN",    *)
(* "OPEN_CD" (status OPEN but carrying close_data), "CLOSED", or "NONE"    *)
(* when the file has no record of the id.  The composite key is a function *)
(* of the position, so a position's records all sit under one key and the  *)
(* key is left out; under one key _handle_closed_position keeps at most    *)
(* one record per id, so the closed file never holds an id twice.  A read  *)
(* is one step (flock, json.load, unlock); a locked or plain in-place      *)
(* write is two (truncate, then the dump that closing the file flushes);   *)
(* os.replace is one.  Backup copies are not part of the state.            *)
(***************************************************************************)
Procs == {1, 2}

\* The webhook server; process 2 is the Telegram bot process
Server == 1

NoRecs == [i \in Ids |-> "NONE"]

Valid(recs) == [st |-> "ok", recs |-> recs]

ZeroBytes == [st |-> "empty", recs |-> NoRecs]

Torn == [st |-> "partial", recs |-> NoRecs]

IdsOf(recs) == {i \in Ids : recs[i] # "NONE"}

InPart(fs, F, i) == fs[F].st = "ok" /\ fs[F].recs[i] # "NONE"

MinOf(S) == CHOOSE x \in S : \A y \in S : x <= y

\* Another process holds a flock on file F
Held(F, p) == \E q \in Procs \ {p} : locks[F][q] # "NONE"

\* Process q has file F open for an in-place write that is not yet flushed
MidWrite(q, F) == pc[q] \in {"w_dump", "f_dump_open"} /\ loc[q].file = F

\* The dictionary Position.to_dict wrote for a record of status s
Record(s) ==
    [status |-> IF s = "OPEN_CD" THEN "OPEN" ELSE s,
     initial_quantity |-> 1,
     remaining_quantity |-> IF s = "CLOSED" THEN 0 ELSE 1,
     take_profits |-> <<>>,
     close_data |-> IF s = "OPEN" THEN NoCloseData
                    ELSE [set |-> TRUE, quantity |-> 1, reason |-> "close"],
     take_profit_max |-> 1,
     direction |-> "LONG", leverage |-> 1, margin_type |-> "None"]

\* _load_positions on valid JSON: every record becomes a Position
Load(recs) ==
    [i \in Ids |-> IF recs[i] = "NONE" THEN "NONE"
                   ELSE create_position_from_dict(Record(recs[i])).status]

\* The statuses a cached position can have when update is called on it
NextStatus(s) ==
    CASE s = "OPEN" -> {"OPEN", "OPEN_CD", "CLOSED"}
      [] s = "OPEN_CD" -> {"OPEN_CD", "CLOSED"}
      [] OTHER -> {"CLOSED"}

\* fix_position_race: the open records it keeps, given the closed records
Reconciled(open, closed) ==
    [i \in Ids |-> IF closed[i] # "NONE" \/ open[i] = "CLOSED" THEN "NONE"
                   ELSE open[i]]

LocIdle ==
    [op |-> "none", id |-> 0, st |-> "NONE", file |-> "open",
     data |-> NoRecs, old |-> Valid(NoRecs), k |-> "after",
     after |-> "done", already |-> FALSE, todo |-> {}, detached |-> FALSE,
     timedOut |-> FALSE, wrote |-> FALSE, outcome |-> "returned",
     cache0 |-> NoRecs, wasOpen |-> FALSE]

NoRes ==
    [op |-> "none", id |-> 0, st |-> "NONE", outcome |-> "returned",
     timedOut |-> FALSE, wrote |-> FALSE, cacheKept |-> TRUE,
     wasOpen |-> FALSE, inOpen |-> FALSE, inCache |-> FALSE,
     inClosed |-> FALSE, calls |-> <<>>]

NoIO == [file |-> "none", kind |-> "none", lock |-> "NONE"]

NoCrash == [file |-> "none", old |-> Valid(NoRecs), new |-> Valid(NoRecs),
            after |-> Valid(NoRecs)]

NoFix == [lost |-> {}]

\* What the caller of a finished operation finds: l are the operation's
\* locals, c its instance's cache and fs the files when it returns.
Summary(l, c, fs) ==
    LET one == l.op \in {"save", "update", "delete"}
    IN  [op |-> l.op, id |-> IF one THEN l.id ELSE 0,
         st |-> IF one THEN l.st ELSE "NONE",
         outcome |-> l.outcome, timedOut |-> l.timedOut, wrote |-> l.wrote,
         cacheKept |-> c = l.cache0, wasOpen |-> l.wasOpen,
         inOpen |-> one /\ InPart(fs, "open", l.id),
         inCache |-> one /\ c[l.id] # "NONE",
         inClosed |-> one /\ InPart(fs, "closed", l.id), calls |-> <<>>]

\* Where control goes when _handle_closed_position, a reload or the
\* reconciliation routine returns.  clean_closed_positions handles the
\* CLOSED positions of the cache in file order, which the ids number.
After(l) ==
    CASE l.after = "handle" ->
             [pc |-> "hc_load", loc |-> [l EXCEPT !.after = "done"]]
      [] l.after = "clean" /\ l.todo # {} ->
             [pc |-> "hc_load",
              loc |-> [l EXCEPT !.id = MinOf(l.todo),
                                !.todo = @ \ {MinOf(l.todo)}]]
      [] l.after = "startup" -> [pc |-> "init", loc |-> l]
      [] l.after = "validate" -> [pc |-> "validate", loc |-> l]
      [] OTHER -> [pc |-> "idle", loc |-> l]

\* Where control goes when a file write returns
Cont(l) == IF l.k = "outcome" THEN [pc |-> "hc_outcome", loc |-> l]
           ELSE After(l)

Proceed(p, t, base) ==
    /\ pc' = [pc EXCEPT ![p] = t.pc]
    /\ loc' = [base EXCEPT ![p] = IF t.pc = "idle" THEN LocIdle ELSE t.loc]
    /\ res' = IF t.pc = "idle"
              THEN [res EXCEPT ![p] = Summary(t.loc, cache'[p], files')]
              ELSE res

Access(p, F, kind, lock) ==
    [io EXCEPT ![p] = [file |-> F, kind |-> kind, lock |-> lock]]

\* The file after the dump of an in-place write is flushed.  A file that
\* os.replace has put in place since the handle was opened is untouched;
\* bytes another writer has put into the same file meanwhile are
\* overwritten from offset 0, which leaves the dump or a mixture.
DumpResults(l) ==
    IF l.detached THEN {files[l.file]}
    ELSE IF files[l.file].st = "empty" THEN {Valid(l.data)}
    ELSE {Valid(l.data), Torn}

OtherSpecsIdle ==
    /\ PosIdle
    /\ svcCache = <<>> /\ svcFile = <<>> /\ svcClosed = <<>>
    /\ svcLedger = <<>> /\ svcOrders = <<>> /\ svcRes = <<>>

\* The store after construction over the files of an earlier run: both
\* partitions valid and disjoint, one ledger row per closed position, and
\* each instance's cache loaded from the open file.
StoreInit ==
    /\ OtherSpecsIdle
    /\ ExtIdle
    /\ \E o \in SUBSET Ids : \E c \in SUBSET (Ids \ o) :
           /\ files = [open |-> Valid([i \in Ids |-> IF i \in o THEN "OPEN"
                                                   ELSE "NONE"]),
                       closed |-> Valid([i \in Ids |-> IF i \in c
                                                     THEN "CLOSED"
                                                     ELSE "NONE"])]
           /\ ledger = [i \in Ids |-> IF i \in c THEN 1 ELSE 0]
           /\ cache = [p \in Procs |->
                          Load([i \in Ids |-> IF i \in o THEN "OPEN"
                                              ELSE "NONE"])]
           /\ used = o \cup c
           /\ persisted = o \cup c
    /\ locks = [open |-> [p \in Procs |-> "NONE"],
                closed |-> [p \in Procs |-> "NONE"]]
    /\ pc = [p \in Procs |-> "idle"]
    /\ loc = [p \in Procs |-> LocIdle]
    /\ opsLeft = MaxOps
    /\ crashes = 0
    /\ io = [p \in Procs |-> NoIO]
    /\ res = [p \in Procs |-> NoRes]
    /\ crashRec = NoCrash
    /\ fixRes = NoFix

Begin(p) ==
    /\ pc[p] = "idle"
    /\ opsLeft > 0
    /\ opsLeft' = opsLeft - 1

\* save(position) of a newly created position
Save(p) ==
    \E i \in Ids \ used :
        /\ Begin(p)
        /\ used' = used \cup {i}
        /\ cache' = [cache EXCEPT ![p][i] = "OPEN"]
        /\ loc' = [loc EXCEPT ![p] =
                      [LocIdle EXCEPT !.op = "save", !.id = i, !.st = "OPEN",
                                      !.data = cache'[p],
                                      !.cache0 = cache[p]]]
        /\ pc' = [pc EXCEPT ![p] = "w_begin"]
        /\ res' = [res EXCEPT ![p] = NoRes]
        /\ UNCHANGED <<files, ledger, locks, crashes, persisted, io,
                       crashRec, fixRes, posVars, svcVars, extVars>>

\* update(position): the position object carries status st
Update(p) ==
    \E i \in Ids : \E st \in NextStatus(cache[p][i]) :
        /\ Begin(p)
        /\ IF cache[p][i] = "NONE"
           THEN /\ res' = [res EXCEPT ![p] =
                              [NoRes EXCEPT !.op = "update", !.id = i,
                                            !.st = st,
                                            !.outcome = "ValueError"]]
                /\ UNCHANGED <<cache, loc, pc>>
           ELSE /\ cache' = [cache EXCEPT ![p][i] = st]
                /\ loc' = [loc EXCEPT ![p] =
                              [LocIdle EXCEPT
                                  !.op = "update", !.id = i, !.st = st,
                                  !.data = cache'[p], !.cache0 = cache[p],
                                  !.wasOpen = InPart(files, "open", i),
                                  !.after = IF st = "CLOSED" THEN "handle"
                                            ELSE "done"]]
                /\ pc' = [pc EXCEPT ![p] = "w_begin"]
                /\ res' = [res EXCEPT ![p] = NoRes]
        /\ UNCHANGED <<files, ledger, locks, crashes, used, persisted, io,
                       crashRec, fixRes, posVars, svcVars, extVars>>

\* delete(position_id) called on the store directly
Delete(p) ==
    \E i \in Ids :
        /\ Begin(p)
        /\ IF cache[p][i] = "NONE"
           THEN /\ res' = [res EXCEPT ![p] =
                              [NoRes EXCEPT !.op = "delete", !.id = i,
                                            !.outcome = "ValueError"]]
                /\ UNCHANGED <<cache, loc, pc, persisted>>
           ELSE /\ cache' = [cache EXCEPT ![p][i] = "NONE"]
                /\ loc' = [loc EXCEPT ![p] =
                              [LocIdle EXCEPT
                                  !.op = "delete", !.id = i,
                                  !.data = cache'[p], !.cache0 = cache[p]]]
                /\ pc' = [pc EXCEPT ![p] = "w_begin"]
                /\ res' = [res EXCEPT ![p] = NoRes]
                /\ persisted' = persisted \ {i}
        /\ UNCHANGED <<files, ledger, locks, crashes, used, io, crashRec,
                       fixRes, posVars, svcVars, extVars>>

\* reload_positions()
Reload(p) ==
    /\ Begin(p)
    /\ loc' = [loc EXCEPT ![p] = [LocIdle EXCEPT !.op = "reload",
                                                 !.cache0 = cache[p]]]
    /\ pc' = [pc EXCEPT ![p] = "r_open"]
    /\ res' = [res EXCEPT ![p] = NoRes]
    /\ UNCHANGED <<files, ledger, locks, cache, crashes, used, persisted, io,
                   crashRec, fixRes, posVars, svcVars, extVars>>

\* MaintenanceTasks.clean_closed_positions, run by the server
CleanClosedPositions(p) ==
    /\ p = Server
    /\ Begin(p)
    /\ loc' = [loc EXCEPT ![p] = [LocIdle EXCEPT !.op = "clean",
                                                 !.after = "clean",
                                                 !.cache0 = cache[p]]]
    /\ pc' = [pc EXCEPT ![p] = "r_open"]
    /\ res' = [res EXCEPT ![p] = NoRes]
    /\ UNCHANGED <<files, ledger, locks, cache, crashes, used, persisted, io,
                   crashRec, fixRes, posVars, svcVars, extVars>>

\* fix_position_race, run by the server's maintenance loop
FixPositionRace(p) ==
    /\ p = Server
    /\ Begin(p)
    /\ loc' = [loc EXCEPT ![p] = [LocIdle EXCEPT !.op = "fix",
                                                 !.cache0 = cache[p]]]
    /\ pc' = [pc EXCEPT ![p] = "f_read_open"]
    /\ res' = [res EXCEPT ![p] = NoRes]
    /\ UNCHANGED <<files, ledger, locks, cache, crashes, used, persisted, io,
                   crashRec, fixRes, posVars, svcVars, extVars>>

\* _save_positions_transactional / _save_file_transactional: take the
\* exclusive lock and truncate the file in place, or, when the lock wait
\* times out, write a temporary file and os.replace it over the target.
WBegin(p) ==
    LET l == loc[p]
        F == l.file
    IN  /\ pc[p] = "w_begin"
        /\ \/ /\ ~Held(F, p)
              /\ locks' = [locks EXCEPT ![F][p] = "EX"]
              /\ files' = [files EXCEPT ![F] = ZeroBytes]
              /\ pc' = [pc EXCEPT ![p] = "w_dump"]
              /\ loc' = [loc EXCEPT ![p] = [l EXCEPT !.old = files[F],
                                                     !.detached = FALSE]]
              /\ io' = Access(p, F, "write", "EX")
              /\ UNCHANGED <<persisted, res, cache>>
           \/ /\ Held(F, p)
              /\ files' = [files EXCEPT ![F] = Valid(l.data)]
              /\ persisted' = persisted \cup IdsOf(l.data)
              /\ io' = Access(p, F, "write", "NONE")
              /\ UNCHANGED <<locks, cache>>
              /\ Proceed(p, Cont([l EXCEPT !.timedOut = TRUE,
                                           !.wrote = TRUE]),
                         [q \in Procs |->
                             IF q # p /\ MidWrite(q, F)
                             THEN [loc[q] EXCEPT !.detached = TRUE]
                             ELSE loc[q]])
        /\ UNCHANGED <<ledger, opsLeft, crashes, used, crashRec, fixRes,
                       posVars, svcVars, extVars>>

\* json.dump reaches the file and the lock is released
WDump(p) ==
    LET l == loc[p]
        F == l.file
    IN  /\ pc[p] = "w_dump"
        /\ \E r \in DumpResults(l) :
               /\ files' = [files EXCEPT ![F] = r]
               /\ persisted' = IF ~l.detached /\ r.st = "ok"
                               THEN persisted \cup IdsOf(l.data)
                               ELSE persisted
        /\ locks' = [locks EXCEPT ![F][p] = "NONE"]
        /\ UNCHANGED cache
        /\ Proceed(p, Cont([l EXCEPT !.wrote = l.timedOut]), loc)
        /\ UNCHANGED <<ledger, opsLeft, crashes, used, io, crashRec, fixRes,
                       posVars, svcVars, extVars>>

\* _handle_closed_position up to the write of the closed file:
\* _load_closed_positions, then the record of the position replaces any
\* record of the same id.
HcLoad(p) ==
    LET l == loc[p]
        f == files["closed"]
        timeout == f.st # "empty" /\ Held("closed", p)
        content == IF f.st = "ok" /\ ~timeout THEN f.recs ELSE NoRecs
    IN  /\ pc[p] = "hc_load"
        /\ loc' = [loc EXCEPT ![p] =
                      [l EXCEPT !.already = content[l.id] # "NONE",
                                !.data = [content EXCEPT ![l.id] = "CLOSED"],
                                !.file = "closed", !.k = "outcome",
                                !.timedOut = @ \/ timeout]]
        /\ pc' = [pc EXCEPT ![p] = "w_begin"]
        /\ io' = IF f.st = "empty" \/ timeout THEN io
                 ELSE Access(p, "closed", "read", "SH")
        /\ UNCHANGED <<files, ledger, locks, cache, opsLeft, crashes, used,
                       persisted, res, crashRec, fixRes, posVars, svcVars, extVars>>

\* _handle_closed_position after the write of the closed file:
\* _record_trade_outcome, then delete unless the id was already closed
HcOutcome(p) ==
    LET l == loc[p]
    IN  /\ pc[p] = "hc_outcome"
        /\ ledger' = [ledger EXCEPT ![l.id] = @ + 1]
        /\ UNCHANGED files
        /\ IF ~l.already /\ cache[p][l.id] # "NONE"
           THEN /\ cache' = [cache EXCEPT ![p][l.id] = "NONE"]
                /\ loc' = [loc EXCEPT ![p] =
                              [l EXCEPT !.file = "open", !.k = "after",
                                        !.data = cache'[p]]]
                /\ pc' = [pc EXCEPT ![p] = "w_begin"]
                /\ UNCHANGED res
           ELSE /\ UNCHANGED cache
                /\ Proceed(p, After(l), loc)
        /\ UNCHANGED <<locks, opsLeft, crashes, used, persisted, io,
                       crashRec, fixRes, posVars, svcVars, extVars>>

\* Mutant of ROpen: a file without bytes is rewritten as {} too.
ROpen_rewriting(p) ==
    LET l == loc[p]
        f == files["open"]
        timeout == f.st # "empty" /\ Held("open", p)
        loaded == IF f.st = "ok" /\ ~timeout THEN Load(f.recs) ELSE NoRecs
        l2 == [l EXCEPT !.timedOut = @ \/ timeout,
                        !.todo = IF l.after = "clean"
                                 THEN {i \in Ids : loaded[i] = "CLOSED"}
                                 ELSE {}]
    IN  /\ pc[p] = "r_open"
        /\ cache' = [cache EXCEPT ![p] = loaded]
        /\ files' = IF f.st # "ok" /\ ~timeout
                    THEN [files EXCEPT !["open"] = Valid(NoRecs)]
                    ELSE files
        /\ io' = IF f.st = "empty" \/ timeout THEN io
                 ELSE IF f.st = "partial"
                      THEN Access(p, "open", "write", "SH")
                      ELSE Access(p, "open", "read", "SH")
        /\ Proceed(p, After(l2), loc)
        /\ UNCHANGED <<ledger, locks, opsLeft, crashes, used, persisted,
                       crashRec, fixRes, posVars, svcVars, extVars>>

\* _load_positions: the cache is emptied, then filled from the open file
\* unless the file has no bytes, the lock wait times out, or the file is
\* not JSON (the file is then rewritten as {} under the shared lock).
ROpen(p) ==
    LET l == loc[p]
        f == files["open"]
        timeout == f.st # "empty" /\ Held("open", p)
        loaded == IF f.st = "ok" /\ ~timeout THEN Load(f.recs) ELSE NoRecs
        l2 == [l EXCEPT !.timedOut = @ \/ timeout,
                        !.todo = IF l.after = "clean"
                                 THEN {i \in Ids : loaded[i] = "CLOSED"}
                                 ELSE {}]
    IN  /\ pc[p] = "r_open"
        /\ cache' = [cache EXCEPT ![p] = loaded]
        /\ files' = IF f.st = "partial" /\ ~timeout
                    THEN [files EXCEPT !["open"] = Valid(NoRecs)]
                    ELSE files
        /\ io' = IF f.st = "empty" \/ timeout THEN io
                 ELSE IF f.st = "partial"
                      THEN Access(p, "open", "write", "SH")
                      ELSE Access(p, "open", "read", "SH")
        /\ Proceed(p, After(l2), loc)
        /\ UNCHANGED <<ledger, locks, opsLeft, crashes, used, persisted,
                       crashRec, fixRes, posVars, svcVars, extVars>>

\* fix_position_race: open(POSITIONS_FILE, 'r'); json.load
FReadOpen(p) ==
    LET l == loc[p]
        f == files["open"]
    IN  /\ pc[p] = "f_read_open"
        /\ io' = Access(p, "open", "read", "NONE")
        /\ UNCHANGED <<files, cache>>
        /\ IF f.st # "ok"
           THEN Proceed(p, After(l), loc)
           ELSE /\ loc' = [loc EXCEPT ![p] = [l EXCEPT !.data = f.recs]]
                /\ pc' = [pc EXCEPT ![p] = "f_read_closed"]
                /\ UNCHANGED res
        /\ UNCHANGED <<ledger, locks, opsLeft, crashes, used, persisted,
                       crashRec, fixRes, posVars, svcVars, extVars>>

\* fix_position_race: open(CLOSED_POSITIONS_FILE, 'r'); json.load; drop
\* from the open data every id that is closed or whose status is CLOSED
FReadClosed(p) ==
    LET l == loc[p]
        f == files["closed"]
    IN  /\ pc[p] = "f_read_closed"
        /\ io' = Access(p, "closed", "read", "NONE")
        /\ UNCHANGED <<files, cache>>
        /\ IF f.st # "ok"
           THEN Proceed(p, After(l), loc)
           ELSE /\ loc' = [loc EXCEPT ![p] =
                              [l EXCEPT !.data = Reconciled(l.data, f.recs)]]
                /\ pc' = [pc EXCEPT ![p] = "f_trunc_open"]
                /\ UNCHANGED res
        /\ UNCHANGED <<ledger, locks, opsLeft, crashes, used, persisted,
                       crashRec, fixRes, posVars, svcVars, extVars>>

\* fix_position_race: open(POSITIONS_FILE, 'w') truncates the file
FTruncOpen(p) ==
    LET l == loc[p]
    IN  /\ pc[p] = "f_trunc_open"
        /\ files' = [files EXCEPT !["open"] = ZeroBytes]
        /\ loc' = [loc EXCEPT ![p] = [l EXCEPT !.old = files["open"],
                                               !.detached = FALSE]]
        /\ pc' = [pc EXCEPT ![p] = "f_dump_open"]
        /\ io' = Access(p, "open", "write", "NONE")
        /\ UNCHANGED <<ledger, locks, cache, opsLeft, crashes, used,
                       persisted, res, crashRec, fixRes, posVars, svcVars, extVars>>

\* fix_position_race: the dump of the open data is flushed.  The closed
\* file holds no id twice, so duplicate_closed is 0 and it is not written.
FDumpOpen(p) ==
    LET l == loc[p]
    IN  /\ pc[p] = "f_dump_open"
        /\ \E r \in DumpResults(l) :
               /\ files' = [files EXCEPT !["open"] = r]
               /\ persisted' = IF ~l.detached /\ r.st = "ok"
                               THEN persisted \cup IdsOf(l.data)
                               ELSE persisted
        /\ fixRes' =
               [lost |-> {i \in Ids :
                             /\ l.old.st = "ok"
                             /\ l.old.recs[i] \in {"OPEN", "OPEN_CD"}
                             /\ ~InPart(files', "open", i)
                             /\ ~InPart(files', "closed", i)}]
        /\ UNCHANGED cache
        /\ Proceed(p, After(l), loc)
        /\ UNCHANGED <<ledger, locks, opsLeft, crashes, used, io, crashRec,
                       posVars, svcVars, extVars>>

\* The server process dies.  Its locks go, its cache is lost, and a write
\* it had truncated but not flushed leaves the file as it is or torn.
Crash(p) ==
    LET l == loc[p]
        F == l.file
        writing == MidWrite(p, F) /\ ~l.detached
    IN  /\ p = Server
        /\ crashes < MaxCrashes
        /\ pc[p] # "down"
        /\ crashes' = crashes + 1
        /\ \E r \in (IF writing THEN {files[F], Torn} ELSE {files[F]}) :
               /\ files' = [files EXCEPT ![F] = r]
               /\ crashRec' = IF writing
                              THEN [file |-> F, old |-> l.old,
                                    new |-> Valid(l.data), after |-> r]
                              ELSE crashRec
        /\ locks' = [F2 \in {"open", "closed"} |->
                        [locks[F2] EXCEPT ![p] = "NONE"]]
        /\ cache' = [cache EXCEPT ![p] = NoRecs]
        /\ pc' = [pc EXCEPT ![p] = "down"]
        /\ loc' = [loc EXCEPT ![p] = LocIdle]
        /\ UNCHANGED <<ledger, opsLeft, used, persisted, io, res, fixRes,
                       posVars, svcVars, extVars>>

\* startup_event begins with fix_position_race
Restart(p) ==
    /\ pc[p] = "down"
    /\ pc' = [pc EXCEPT ![p] = "f_read_open"]
    /\ loc' = [loc EXCEPT ![p] = [LocIdle EXCEPT !.op = "startup",
                                                 !.after = "startup"]]
    /\ UNCHANGED <<files, ledger, locks, cache, opsLeft, crashes, used,
                   persisted, io, res, crashRec, fixRes, posVars, svcVars, extVars>>

\* startup_event creates the repository (__init__: _ensure_valid_json_file
\* on both files, then _load_positions) and goes on to
\* clean_closed_positions.
InitRepo(p) ==
    LET l == loc[p]
        fs == [F \in {"open", "closed"} |->
                  IF files[F].st = "ok" THEN files[F] ELSE Valid(NoRecs)]
        timeout == Held("open", p)
    IN  /\ pc[p] = "init"
        /\ files' = fs
        /\ cache' = [cache EXCEPT ![p] = IF timeout THEN NoRecs
                                         ELSE Load(fs["open"].recs)]
        /\ io' = IF timeout THEN io ELSE Access(p, "open", "read", "SH")
        /\ loc' = [loc EXCEPT ![p] = [l EXCEPT !.after = "clean",
                                               !.cache0 = cache'[p]]]
        /\ pc' = [pc EXCEPT ![p] = "r_open"]
        /\ UNCHANGED <<ledger, locks, opsLeft, crashes, used, persisted, res,
                       crashRec, fixRes, posVars, svcVars, extVars>>

\* The ways process_signal rejects a signal (signal_processor.py:111-116,
\* 131-132, 146, 323-337)
RejectKinds ==
    {"no_command", "no_asset", "no_interval", "no_bot", "unknown_command",
     "malformed_tp"}

\* The exchange calls made before the rejection: get_asset_info precedes the
\* dispatch on the command (signal_processor.py:135)
ExchangeCalls(kind) ==
    IF kind \in {"unknown_command", "malformed_tp"}
    THEN <<"get_asset_info">> ELSE <<>>

\* SignalProcessor.process_signal for a signal that fails validation: it
\* begins with repository.reload_positions()
RejectedSignal(p) ==
    /\ Begin(p)
    /\ loc' = [loc EXCEPT ![p] = [LocIdle EXCEPT !.op = "rejected",
                                                 !.after = "validate",
                                                 !.cache0 = cache[p]]]
    /\ pc' = [pc EXCEPT ![p] = "r_open"]
    /\ res' = [res EXCEPT ![p] = NoRes]
    /\ UNCHANGED <<files, ledger, locks, cache, crashes, used, persisted, io,
                   crashRec, fixRes, posVars, svcVars, extVars>>

\* process_signal after the reload: the validation raises ValueError, which
\* except Exception turns into {"success": False, "error": ...}
Validate(p) ==
    /\ pc[p] = "validate"
    /\ \E kind \in RejectKinds :
          res' = [res EXCEPT ![p] =
                     [Summary(loc[p], cache[p], files)
                         EXCEPT !.calls = ExchangeCalls(kind)]]
    /\ pc' = [pc EXCEPT ![p] = "idle"]
    /\ loc' = [loc EXCEPT ![p] = LocIdle]
    /\ UNCHANGED <<files, ledger, locks, cache, opsLeft, crashes, used,
                   persisted, io, crashRec, fixRes, posVars, svcVars, extVars>>

StoreNext ==
    \E p \in Procs :
        \/ Save(p) \/ Update(p) \/ Delete(p) \/ Reload(p)
        \/ CleanClosedPositions(p) \/ FixPositionRace(p)
        \/ WBegin(p) \/ WDump(p) \/ HcLoad(p) \/ HcOutcome(p) \/ ROpen(p)
        \/ FReadOpen(p) \/ FReadClosed(p) \/ FTruncOpen(p) \/ FDumpOpen(p)
        \/ Crash(p) \/ Restart(p) \/ InitRepo(p)
        \/ RejectedSignal(p) \/ Validate(p)

SpecStore == StoreInit /\ [][StoreNext]_vars

Quiescent == \A p \in Procs : pc[p] = "idle"

\* C4 (as claimed): when a process crashes during a write of a partition
\* file, the file afterwards holds the complete content from before the
\* write or the complete new content.
C4_CrashLeavesOldOrNew ==
    crashRec.file # "none" => crashRec.after \in {crashRec.old, crashRec.new}

\* C5 (as claimed): once the store has persisted a position, whenever no
\* operation is in progress its record is in the open file or in the closed
\* file.
C5_NeverInNeitherPartition ==
    Quiescent =>
        \A i \in persisted : InPart(files, "open", i)
                             \/ InPart(files, "closed", i)

\* C6 (as claimed): every read of a partition file is made under the shared
\* lock and every write under the exclusive lock, and no write of the open
\* file overlaps a lock that another process holds on it.
C6_AllAccessLocked ==
    /\ \A p \in Procs :
           /\ io[p].kind = "read" => io[p].lock \in {"SH", "EX"}
           /\ io[p].kind = "write" => io[p].lock = "EX"
    /\ \A p \in Procs : \A q \in Procs \ {p} :
           ~(MidWrite(p, "open") /\ locks["open"][q] # "NONE")

\* C7 (as claimed): a save, update, delete or reload whose lock wait timed
\* out fails with a lock-timeout failure and has changed neither the file
\* nor the cache.
C7_LockTimeoutFails ==
    \A p \in Procs :
        (res[p].op \in {"save", "update", "delete", "reload"}
         /\ res[p].timedOut)
        => /\ res[p].outcome = "FileLockException"
           /\ ~res[p].wrote
           /\ res[p].cacheKept

\* C8 (as claimed): every record the open file held just before the
\* reconciliation routine wrote it is still there when the routine has
\* finished, unless its id is in the closed file or it is marked CLOSED.
C8_FixLosesNothing == fixRes.lost = {}

\* C9 (as claimed): when update(p) returns for a CLOSED p whose id was in
\* the open partition, the id is in the closed partition and no longer in
\* the open partition, neither in the cache nor in the file.
C9_ClosedUpdateMoves ==
    \A p \in Procs :
        (res[p].op = "update" /\ res[p].st = "CLOSED"
         /\ res[p].outcome = "returned" /\ res[p].wasOpen)
        => /\ res[p].inClosed
           /\ ~res[p].inOpen
           /\ ~res[p].inCache

\* C10 (as claimed): no position id has two rows in the trade-outcomes
\* ledger.
C10_OneLedgerRow == \A i \in Ids : ledger[i] <= 1

\* A step of a rejected signal in process p
RejectedStep(p) == loc[p].op = "rejected" /\ pc'[p] # pc[p]

\* The in-place write of a save(position) by process p reaches the open
\* file, which held valid content when the write began
SaveLands(p) ==
    /\ loc[p].op = "save"
    /\ pc[p] = "w_dump" /\ pc'[p] # "w_dump"
    /\ ~loc[p].detached
    /\ loc[p].old.st = "ok"
    /\ files'["open"].st = "ok"

\* C36 (as claimed): a save(p) by one store instance changes only the
\* record of p in the open file: every other record the file held when the
\* write began (a position the other instance saved meanwhile) is still
\* there, and no other record (a position the other instance has moved to
\* the closed partition) is put back.
C36_SaveChangesOnlyItsRecord ==
    [][\A p \in Procs :
          SaveLands(p)
          => \A j \in Ids \ {loc[p].id} :
                files'["open"].recs[j] = loc[p].old.recs[j]]_vars

MaxAssetQty == 12
MaxCoef == 3
MaxExp == 1

\* An Optional[Decimal] that is None
None == 0 - 1

Max(a, b) == IF a >= b THEN a ELSE b

RECURSIVE Pow10(_)
Pow10(e) == IF e = 0 THEN 1 ELSE 10 * Pow10(e - 1)

\* The value of a step size; None stays None
StepValue(step) ==
    IF step.coef = None THEN None ELSE step.coef * Pow10(step.exp)

\* Decimal.quantize(step_size, rounding=ROUND_DOWN) of x >= 0: x with the
\* digits below the exponent of step_size cut off
quantize(x, step) == (x \div Pow10(step.exp)) * Pow10(step.exp)

\* Mutant of ensure_valid_quantity: the number of steps is returned, the
\* multiplication by step_size forgotten.
ensure_valid_quantity_steps(a, q) ==
    LET q1 == IF a.min_quantity # None THEN Max(a.min_quantity, q) ELSE q
        q2 == IF a.max_quantity # None THEN Min(a.max_quantity, q1) ELSE q1
        step_size == StepValue(a.step_size)
    IN  IF step_size # None /\ step_size > 0
        THEN IF a.min_quantity # None /\ q2 \div step_size < a.min_quantity
             THEN 0 ELSE q2 \div step_size
        ELSE q2

\* Mutant of ensure_valid_quantity: the second comparison with min_quantity
\* is left out.
ensure_valid_quantity_unchecked(a, q) ==
    LET q1 == IF a.min_quantity # None THEN Max(a.min_quantity, q) ELSE q
        q2 == IF a.max_quantity # None THEN Min(a.max_quantity, q1) ELSE q1
        step_size == StepValue(a.step_size)
    IN  IF step_size # None /\ step_size > 0
        THEN quantize((q2 \div step_size) * step_size, a.step_size)
        ELSE q2

\* Mutant of ensure_valid_quantity: the quantity is rounded up to the next
\* multiple of the step size.
ensure_valid_quantity_up(a, q) ==
    LET q1 == IF a.min_quantity # None THEN Max(a.min_quantity, q) ELSE q
        q2 == IF a.max_quantity # None THEN Min(a.max_quantity, q1) ELSE q1
        step_size == StepValue(a.step_size)
        q3 == quantize(((q2 + step_size - 1) \div step_size) * step_size,
                       a.step_size)
    IN  IF step_size # None /\ step_size > 0
        THEN IF a.min_quantity # None /\ q3 < a.min_quantity THEN 0 ELSE q3
        ELSE q2

\* Asset.ensure_valid_quantity(quantity)
ensure_valid_quantity(a, q) ==
    LET q1 == IF a.min_quantity # None THEN Max(a.min_quantity, q) ELSE q
        q2 == IF a.max_quantity # None THEN Min(a.max_quantity, q1) ELSE q1
        step_size == StepValue(a.step_size)
        q3 == quantize((q2 \div step_size) * step_size, a.step_size)
    IN  IF step_size # None /\ step_size > 0
        THEN IF a.min_quantity # None /\ q3 < a.min_quantity THEN 0 ELSE q3
        ELSE q2

\* The step sizes an exchange reports: unset, zero, or coef * 10^exp
StepSizes ==
    {[coef |-> None, exp |-> 0]}
        \cup [coef : 0..MaxCoef, exp : 0..MaxExp]

\* Asset(min_quantity, max_quantity, step_size), each possibly unset
Assets ==
    [min_quantity : {None} \cup 0..MaxAssetQty,
     max_quantity : {None} \cup 0..MaxAssetQty,
     step_size : StepSizes]

NoAssetCall == [arg |-> None, out |-> None]

AssetInit ==
    /\ OtherSpecsIdle
    /\ StoreIdle
    /\ ExtIdleExcept("asset")
    /\ asset \in Assets
    /\ assetQty \in 0..MaxAssetQty
    /\ assetRes = NoAssetCall

\* quantity = asset.ensure_valid_quantity(quantity)
EnsureValidQuantity ==
    /\ assetQty' = ensure_valid_quantity(asset, assetQty)
    /\ assetRes' = [arg |-> assetQty, out |-> assetQty']
    /\ UNCHANGED <<asset, posVars, svcVars, storeVars, amountVars, taskVars,
                   loadVars, raceVars, moreVars>>

AssetNext == EnsureValidQuantity

SpecAsset == AssetInit /\ [][AssetNext]_vars

\* C21: ensure_valid_quantity is idempotent: a quantity it has returned is
\* returned unchanged when it is passed in again.
C21_Idempotent ==
    assetRes # NoAssetCall => ensure_valid_quantity(asset, assetRes.out) = assetRes.out

\* C21 witness: a call on an asset with minimum, maximum and step size has
\* changed its argument into a non-zero quantity.
C21_Witness ==
    /\ assetRes # NoAssetCall
    /\ asset.min_quantity > 0 /\ asset.max_quantity # None
    /\ StepValue(asset.step_size) > 1
    /\ assetRes.out # assetRes.arg /\ assetRes.out > 0

\* C22: with step_size > 0 the result of ensure_valid_quantity is zero, or a
\* non-negative multiple of step_size that is at least min_quantity (if
\* set) and at most max_quantity (if set).
C22_ValidOrZero ==
    (assetRes # NoAssetCall /\ StepValue(asset.step_size) > 0)
    => \/ assetRes.out = 0
       \/ /\ assetRes.out >= 0
          /\ assetRes.out % StepValue(asset.step_size) = 0
          /\ asset.min_quantity # None => assetRes.out >= asset.min_quantity
          /\ asset.max_quantity # None => assetRes.out <= asset.max_quantity

\* C22 witness: a call has cut a quantity above the minimum down to a
\* multiple of the step size that is still valid.
C22_Witness ==
    /\ assetRes # NoAssetCall
    /\ StepValue(asset.step_size) > 1
    /\ asset.min_quantity > 0 /\ asset.max_quantity # None
    /\ assetRes.arg > asset.min_quantity
    /\ assetRes.out > 0 /\ assetRes.out < assetRes.arg

\* C39 (as claimed): ensure_valid_quantity never increases the quantity: for
\* every asset and every quantity q >= 0 the result is at most q.
C39_NeverIncreases ==
    assetRes # NoAssetCall => assetRes.out <= assetRes.arg

\* C39 (amended): ensure_valid_quantity does not increase a quantity that is
\* at least min_quantity (or when no minimum is set): the truncation to the
\* step size never rounds up.  Only the clamp raises a quantity, one below
\* min_quantity, to min_quantity.
C39_NeverIncreasesAboveMinimum ==
    (/\ assetRes # NoAssetCall
     /\ asset.min_quantity # None => assetRes.arg >= asset.min_quantity)
    => assetRes.out <= assetRes.arg

\* C39 witness: a quantity above the minimum that is no multiple of the
\* step size has been cut down to the multiple below it.
C39_Witness ==
    /\ assetRes # NoAssetCall
    /\ asset.min_quantity # None /\ asset.min_quantity > 0
    /\ assetRes.arg > asset.min_quantity
    /\ StepValue(asset.step_size) > 1
    /\ assetRes.arg % StepValue(asset.step_size) # 0
    /\ assetRes.out = assetRes.arg - (assetRes.arg % StepValue(asset.step_size))
    /\ assetRes.out > 0


(***************************************************************************)
(* The trade amount of an entry signal                                     *)
(* (SignalProcessor._calculate_trade_amount).  The amount field of a       *)
(* signal is absent, a text Decimal() rejects, or a number.                *)
(***************************************************************************)
MaxAmount == 5

Amounts ==
    {[kind |-> "absent", value |-> 0], [kind |-> "text", value |-> 0]}
        \cup [kind : {"number"}, value : 0..(MaxAmount + 1)]

\* Mutant of calculate_trade_amount: an amount above the maximum is replaced
\* by the default amount.
calculate_trade_amount_default(signal_amount, default_amount, max_amount) ==
    IF signal_amount.kind # "number" THEN default_amount
    ELSE IF signal_amount.value > max_amount THEN default_amount
    ELSE signal_amount.value

\* SignalProcessor._calculate_trade_amount (signal_processor.py:593-622)
calculate_trade_amount(signal_amount, default_amount, max_amount) ==
    IF signal_amount.kind = "absent" THEN default_amount
    ELSE IF signal_amount.kind = "text" THEN default_amount
    ELSE IF signal_amount.value > max_amount THEN max_amount
    ELSE signal_amount.value

NoAmountCall == [called |-> FALSE, out |-> 0]

\* The signal's amount field and the trading_parameters of the settings
AmountInit ==
    /\ OtherSpecsIdle
    /\ StoreIdle
    /\ ExtIdleExcept("amount")
    /\ amount \in [signal : Amounts, default_trade_amount : 1..MaxAmount,
                    max_trade_amount : 1..MaxAmount]
    /\ amountRes = NoAmountCall

CalculateTradeAmount ==
    /\ ~amountRes.called
    /\ amountRes' =
          [called |-> TRUE,
           out |-> calculate_trade_amount(amount.signal,
                                          amount.default_trade_amount,
                                          amount.max_trade_amount)]
    /\ UNCHANGED <<amount, posVars, svcVars, storeVars, assetVars, taskVars,
                   loadVars, raceVars, moreVars>>

AmountNext == CalculateTradeAmount

SpecAmount == AmountInit /\ [][AmountNext]_vars

notTaskVars == <<posVars, svcVars, storeVars, assetVars, amountVars, loadVars, raceVars, moreVars>>

\* The awaits of an iteration in flight
InFlight == {"price", "info", "order", "filled", "rejected"}

\* The awaits Task.cancel() can find the task suspended at
AwaitPcs == {"startup", "sleep"} \cup InFlight

NoTask ==
    [loop |-> "safety", setting |-> "number", cancel |-> FALSE, cur |-> 0,
     reason |-> "none", abandoned |-> FALSE]

\* The loop moves on to the next position of open_positions, or leaves
\* run_safety_checks
NextPosition(todo) ==
    /\ taskTodo' = todo
    /\ IF todo = {}
       THEN /\ taskPc' = "interval"
            /\ taskRes' = [taskRes EXCEPT !.cur = 0, !.reason = "none"]
       ELSE /\ taskPc' = "price"
            /\ taskRes' = [taskRes EXCEPT !.cur = MinOf(todo),
                                          !.reason = "none"]

\* After a close attempt that raised (safety_tasks.py:107-108, 128-129): a
\* stop-loss attempt is followed by the age check, which may attempt the
\* time-based closure
AfterFailedClose ==
    \/ /\ taskRes.reason = "stop_loss"
       /\ taskPc' = "info"
       /\ taskRes' = [taskRes EXCEPT !.reason = "long_term"]
       /\ UNCHANGED taskTodo
    \/ NextPosition(taskTodo \ {taskRes.cur})

\* The loop as startup_event creates it, about to await asyncio.sleep(5);
\* setting is what safety.check_interval of the settings file holds: a
\* number, a value asyncio.sleep rejects (a text, null), or a section the
\* read of which raises
TaskInit ==
    /\ OtherSpecsIdle
    /\ StoreIdle
    /\ ExtIdleExcept("tasks")
    /\ taskPc = "startup"
    /\ taskTodo = {}
    /\ taskStore \in [Ids -> {"OPEN", "NONE"}]
    /\ taskSold = {}
    /\ \E loop \in {"safety", "maintenance"},
          setting \in {"number", "invalid", "unreadable"} :
          taskRes = [NoTask EXCEPT !.loop = loop, !.setting = setting]

\* await asyncio.sleep(5) returns, or asyncio.sleep(interval_seconds) does
Wake ==
    /\ taskPc \in {"startup", "sleep"}
    /\ ~taskRes.cancel
    /\ taskPc' = "iter"
    /\ UNCHANGED <<taskTodo, taskStore, taskSold, taskRes, notTaskVars>>

\* The head of the loop: run_safety_checks up to its first await, or the
\* whole of clean_closed_positions and fix_position_race
StartIteration ==
    /\ taskPc = "iter"
    /\ IF taskRes.loop = "maintenance"
       THEN /\ taskPc' = "interval"
            /\ UNCHANGED <<taskTodo, taskRes>>
       ELSE NextPosition({i \in Ids : taskStore[i] = "OPEN"})
    /\ UNCHANGED <<taskStore, taskSold, notTaskVars>>

\* get_current_price answers: it raises, or the checks find nothing to
\* do, or the stop loss or the age threshold is met
PriceReturns ==
    /\ taskPc = "price"
    /\ ~taskRes.cancel
    /\ \E outcome \in {"raised", "none", "stop_loss", "long_term"} :
          IF outcome \in {"raised", "none"}
          THEN NextPosition(taskTodo \ {taskRes.cur})
          ELSE /\ taskPc' = "info"
               /\ taskRes' = [taskRes EXCEPT !.reason = outcome]
               /\ UNCHANGED taskTodo
    /\ UNCHANGED <<taskStore, taskSold, notTaskVars>>

\* close_position: get_asset_info answers, and the order is handed to the
\* executor, or it raises
InfoReturns ==
    /\ taskPc = "info"
    /\ ~taskRes.cancel
    /\ \/ /\ taskPc' = "order"
          /\ UNCHANGED <<taskTodo, taskRes>>
       \/ AfterFailedClose
    /\ UNCHANGED <<taskStore, taskSold, notTaskVars>>

\* The executor thread's request: the exchange executes the order
ExchangeFills ==
    /\ taskPc = "order"
    /\ taskSold' = taskSold \cup {taskRes.cur}
    /\ taskPc' = "filled"
    /\ UNCHANGED <<taskTodo, taskStore, taskRes, notTaskVars>>

\* The executor thread's request: the exchange refuses the order
ExchangeRejects ==
    /\ taskPc = "order"
    /\ taskPc' = "rejected"
    /\ UNCHANGED <<taskTodo, taskStore, taskSold, taskRes, notTaskVars>>

\* place_market_order returns: position.close and repository.update, or
\* the exception close_position raises
OrderReturns ==
    /\ taskPc \in {"filled", "rejected"}
    /\ ~taskRes.cancel
    /\ IF taskPc = "filled"
       THEN /\ taskStore' = [taskStore EXCEPT ![taskRes.cur] = "CLOSED"]
            /\ NextPosition(taskTodo \ {taskRes.cur})
       ELSE /\ AfterFailedClose
            /\ UNCHANGED taskStore
    /\ UNCHANGED <<taskSold, notTaskVars>>

\* The end of the iteration: the interval is read again and slept.  A
\* read that raises keeps the interval the loop was started with; a value
\* asyncio.sleep rejects makes it raise, and the fallback
\* asyncio.sleep(max(interval_seconds, 60)) raises again outside any try
FetchIntervalAndSleep ==
    /\ taskPc = "interval"
    /\ taskPc' = IF taskRes.setting = "invalid" THEN "died" ELSE "sleep"
    /\ UNCHANGED <<taskTodo, taskStore, taskSold, taskRes, notTaskVars>>

\* shutdown_event: task.cancel()
Cancel ==
    /\ taskPc \in AwaitPcs
    /\ ~taskRes.cancel
    /\ taskRes' = [taskRes EXCEPT !.cancel = TRUE]
    /\ UNCHANGED <<taskPc, taskTodo, taskStore, taskSold, notTaskVars>>

\* The task's next step after cancel(): CancelledError is raised at the
\* await, passes every except Exception and ends the loop.  An order the
\* executor has begun is executed all the same
DeliverCancel ==
    /\ taskPc \in AwaitPcs
    /\ taskRes.cancel
    /\ taskPc' = "stopped"
    /\ taskRes' = [taskRes EXCEPT !.abandoned = taskPc \in InFlight]
    /\ \/ UNCHANGED taskSold
       \/ /\ taskPc = "order"
          /\ taskSold' = taskSold \cup {taskRes.cur}
    /\ UNCHANGED <<taskTodo, taskStore, notTaskVars>>

\* The steps the event loop, the timers and the exchange take by themselves
TaskProgress ==
    \/ Wake \/ StartIteration \/ PriceReturns \/ InfoReturns
    \/ ExchangeFills \/ ExchangeRejects \/ OrderReturns
    \/ FetchIntervalAndSleep \/ DeliverCancel

TaskNext == TaskProgress \/ Cancel

SpecTasks == TaskInit /\ [][TaskNext]_vars

\* The event loop runs a task that is ready, a timer fires and an exchange
\* request ends; a shutdown may never come
SpecTasksFair == SpecTasks /\ WF_vars(TaskProgress)

\* C26 (as claimed): a loop stopped by cancellation has not abandoned an
\* iteration in flight, and every position whose close order the exchange
\* executed is persisted as closed.
C26_IterationCompletes ==
    taskPc = "stopped"
    => /\ ~taskRes.abandoned
       /\ \A i \in taskSold : taskStore[i] = "CLOSED"

\* C27 (as claimed): unless the loop is cancelled, an iteration starts
\* again and again.
C27_LoopNeverDies == []<>(taskPc = "iter") \/ <>taskRes.cancel

(***************************************************************************)
(* Corrupt partition files and their backups (FilePositionRepository:      *)
(* _load_positions, _ensure_valid_json_file, _create_backup).  The content *)
(* of the open partition file is valid JSON or one of the texts json.load  *)
(* rejects, numbered 1..MaxBad; small says the text has at most 10 bytes.  *)
(* The backup directory maps the hour a backup is named after to the text  *)
(* it holds.                                                               *)
(***************************************************************************)
MaxBad == 2
MaxHour == 1

ValidFile == [bad |-> None, small |-> FALSE]

NoLoad == [op |-> "none", found |-> None, raised |-> FALSE, reset |-> FALSE]

\* FilePositionRepository._create_backup: the name carries the date and the
\* hour, and a backup of that name is not overwritten
create_backup(backups, hour, content) ==
    IF backups[hour] # None THEN backups
    ELSE [backups EXCEPT ![hour] = content]

\* A repository over a valid file, the backup directory empty
LoadInit ==
    /\ OtherSpecsIdle
    /\ StoreIdle
    /\ ExtIdleExcept("load")
    /\ loadFile = ValidFile
    /\ loadBackups = [h \in 0..MaxHour |-> None]
    /\ loadHour = 0
    /\ loadRes = NoLoad

\* A write cut short (a crash during the dump, two writers at once) leaves
\* a text that is not JSON
Corrupt ==
    /\ \E c \in 1..MaxBad, small \in BOOLEAN :
          loadFile' = [bad |-> c, small |-> small]
    /\ UNCHANGED <<loadBackups, loadHour, loadRes, posVars, svcVars,
                   storeVars, assetVars, amountVars, taskVars, raceVars, moreVars>>

\* The clock passes into the next hour
NextHour ==
    /\ loadHour < MaxHour
    /\ loadHour' = loadHour + 1
    /\ UNCHANGED <<loadFile, loadBackups, loadRes, posVars, svcVars,
                   storeVars, assetVars, amountVars, taskVars, raceVars, moreVars>>

\* _load_positions (file_position_repository.py:371-436): on a
\* JSONDecodeError the cache is emptied, _create_backup is called and the
\* file is rewritten as {}
LoadPositions ==
    /\ IF loadFile.bad = None
       THEN /\ loadRes' = [NoLoad EXCEPT !.op = "load"]
            /\ UNCHANGED <<loadFile, loadBackups>>
       ELSE /\ loadBackups' = create_backup(loadBackups, loadHour,
                                            loadFile.bad)
            /\ loadFile' = ValidFile
            /\ loadRes' = [op |-> "load", found |-> loadFile.bad,
                           raised |-> FALSE, reset |-> TRUE]
    /\ UNCHANGED <<loadHour, posVars, svcVars, storeVars, assetVars,
                   amountVars, taskVars, raceVars, moreVars>>

\* _ensure_valid_json_file (90-118), which __init__ runs on each partition
\* file: the backup is made only of a file of more than 10 bytes
EnsureValidJsonFile ==
    /\ IF loadFile.bad = None
       THEN /\ loadRes' = [NoLoad EXCEPT !.op = "ensure"]
            /\ UNCHANGED <<loadFile, loadBackups>>
       ELSE /\ loadBackups' = IF loadFile.small THEN loadBackups
                              ELSE create_backup(loadBackups, loadHour,
                                                 loadFile.bad)
            /\ loadFile' = ValidFile
            /\ loadRes' = [op |-> "ensure", found |-> loadFile.bad,
                           raised |-> FALSE, reset |-> TRUE]
    /\ UNCHANGED <<loadHour, posVars, svcVars, storeVars, assetVars,
                   amountVars, taskVars, raceVars, moreVars>>

LoadNext == Corrupt \/ NextHour \/ LoadPositions \/ EnsureValidJsonFile

SpecLoad == LoadInit /\ [][LoadNext]_vars

\* C28 (as claimed): a load that found invalid content did not raise, has
\* reset the partition to empty, and a backup holding exactly the content
\* it found exists.
C28_BadContentBackedUp ==
    loadRes.found # None
    => /\ ~loadRes.raised
       /\ loadRes.reset
       /\ \E h \in 0..MaxHour : loadBackups[h] = loadRes.found

(***************************************************************************)
(* The reconciliation routine run by itself on two valid partition files   *)
(* (fix_position_race.py).  A file is the list of its records; a           *)
(* position's strategy key is made of fields of the position, so the       *)
(* records of an id are under one key.  ver tells the records of an id in  *)
(* the closed file apart.                                                  *)
(***************************************************************************)
MaxRecs == 2

OpenRecords == [id : Ids, status : {"OPEN", "CLOSED"}]

ClosedRecords == [id : Ids, ver : 1..2]

SeqsUpTo(S, n) == UNION {[1..k -> S] : k \in 0..n}

IdsIn(recs) == {recs[k].id : k \in DOMAIN recs}

\* The indices kept of a list, in order
RECURSIVE Pick(_, _, _)
Pick(recs, keep, k) ==
    IF k > Len(recs) THEN <<>>
    ELSE (IF k \in keep THEN <<recs[k]>> ELSE <<>>) \o Pick(recs, keep, k + 1)

\* Mutant of fix_position_race: the status of an open record is not looked
\* at.
fix_position_race_by_id(open_positions, closed_positions) ==
    LET closed_position_ids == IdsIn(closed_positions)
        remaining == {i \in DOMAIN open_positions :
                         open_positions[i].id \notin closed_position_ids}
        positions_to_keep ==
            {i \in DOMAIN closed_positions :
                \A j \in 1..(i - 1) :
                    closed_positions[j].id # closed_positions[i].id}
    IN  [open |-> Pick(open_positions, remaining, 1),
         closed |-> Pick(closed_positions, positions_to_keep, 1)]

\* fix_position_race (fix_position_race.py:74-143): open records whose id
\* is in the closed file or whose status is CLOSED are deleted; of the
\* closed records of an id the first is kept
fix_position_race(open_positions, closed_positions) ==
    LET closed_position_ids == IdsIn(closed_positions)
        remaining == {i \in DOMAIN open_positions :
                         /\ open_positions[i].id \notin closed_position_ids
                         /\ open_positions[i].status # "CLOSED"}
        positions_to_keep ==
            {i \in DOMAIN closed_positions :
                \A j \in 1..(i - 1) :
                    closed_positions[j].id # closed_positions[i].id}
    IN  [open |-> Pick(open_positions, remaining, 1),
         closed |-> Pick(closed_positions, positions_to_keep, 1)]

NoRace == [done |-> FALSE, open0 |-> <<>>, closed0 |-> <<>>]

\* Two valid partition files
RaceInit ==
    /\ OtherSpecsIdle
    /\ StoreIdle
    /\ ExtIdleExcept("race")
    /\ raceOpen \in SeqsUpTo(OpenRecords, MaxRecs)
    /\ raceClosed \in SeqsUpTo(ClosedRecords, MaxRecs)
    /\ raceRes = NoRace

\* fix_position_race() from its reads to its last write
RunFixPositionRace ==
    /\ ~raceRes.done
    /\ raceOpen' = fix_position_race(raceOpen, raceClosed).open
    /\ raceClosed' = fix_position_race(raceOpen, raceClosed).closed
    /\ raceRes' = [done |-> TRUE, open0 |-> raceOpen, closed0 |-> raceClosed]
    /\ UNCHANGED <<posVars, svcVars, storeVars, assetVars, amountVars,
                   taskVars, loadVars, moreVars>>

RaceNext == RunFixPositionRace

SpecFix == RaceInit /\ [][RaceNext]_vars

\* How often record r occurs in a list
Occurrences(recs, r) == Cardinality({k \in DOMAIN recs : recs[k] = r})

\* Whether list a is list b with some records left out
IsSubSeq(a, b) ==
    \E f \in [DOMAIN a -> DOMAIN b] :
        /\ \A k \in DOMAIN a : a[k] = b[f[k]]
        /\ \A k, m \in DOMAIN a : k < m => f[k] < f[m]

\* C29: after the reconciliation routine has run on two valid partition
\* files, no id is in both files, no open record is marked CLOSED, no id
\* occurs twice in the closed file, and the records that did not have to
\* go are as they were: an open record that is neither CLOSED nor closed
\* elsewhere is still there as often as before, each id of the closed file
\* keeps one of its records, and both files keep their order.
C29_Reconciled ==
    raceRes.done
    => /\ IdsIn(raceOpen) \cap IdsIn(raceClosed) = {}
       /\ \A k \in DOMAIN raceOpen : raceOpen[k].status # "CLOSED"
       /\ \A k, m \in DOMAIN raceClosed :
             raceClosed[k].id = raceClosed[m].id => k = m
       /\ \A r \in OpenRecords :
             (r.status # "CLOSED" /\ r.id \notin IdsIn(raceRes.closed0))
             => Occurrences(raceOpen, r) = Occurrences(raceRes.open0, r)
       /\ IdsIn(raceClosed) = IdsIn(raceRes.closed0)
       /\ IsSubSeq(raceOpen, raceRes.open0)
       /\ IsSubSeq(raceClosed, raceRes.closed0)

\* The routine had a record of each kind to remove and one to keep
C29_Witness ==
    /\ raceRes.done
    /\ Len(raceRes.open0) = 2
    /\ Len(raceOpen) = 1
    /\ raceRes.open0[1].status = "CLOSED"
    /\ Len(raceRes.closed0) = 2
    /\ Len(raceClosed) = 1

(***************************************************************************)
(* SpecRetry: one call of a function wrapped by with_retries               *)
(* (adapters/utils/error_handler.py).  The decorator's arguments are       *)
(* chosen at the start; every attempt returns or raises one of the errors  *)
(* below.                                                                  *)
(***************************************************************************)

MaxRetryCount == 6

\* ErrorCategory
Categories ==
    {"network", "rate_limit", "authentication", "validation", "server",
     "unknown"}

\* RETRY_CONFIG[category]["max_retries"]
max_retries(category) ==
    CASE category = "network" -> 5
      [] category = "rate_limit" -> 3
      [] category = "server" -> 3
      [] category = "authentication" -> 0
      [] category = "validation" -> 0
      [] OTHER -> 1

\* The errors an attempt raises: the exception's type and, for a
\* BinanceAPIException, its code
Errors ==
    {[type |-> "ConnectionError", code |-> 0],
     [type |-> "ValueError", code |-> 0]} \cup
    {[type |-> "BinanceAPIException", code |-> c] :
        c \in {0 - 1003, 0 - 2015, 0 - 2010, 0 - 1001, 0}}

\* categorize_error(error)
categorize_error(error) ==
    IF error.type \in {"ConnectionError", "TimeoutError"} THEN "network"
    ELSE IF error.type = "BinanceAPIException"
    THEN CASE error.code = 0 - 1003 -> "rate_limit"
           [] error.code = 0 - 2015 -> "authentication"
           [] error.code = 0 - 2010 -> "validation"
           [] error.code = 0 - 1001 -> "server"
           [] OTHER -> "unknown"
    ELSE "unknown"

\* Mutant of should_retry: max_retries is not looked at.
should_retry_forever(error, retry_count, retry_for, exclude) ==
    LET category == categorize_error(error)
    IN  /\ category \in retry_for \/ error.type \in retry_for
        /\ ~(category \in exclude \/ error.type \in exclude)

\* The should_retry flag the except branch of the wrapper computes
should_retry(error, retry_count, retry_for, exclude) ==
    LET category == categorize_error(error)
    IN  /\ category \in retry_for \/ error.type \in retry_for
        /\ ~(category \in exclude \/ error.type \in exclude)
        /\ ~(retry_count >= max_retries(category))

\* The retry_for arguments: the default, the one of the order endpoints,
\* and a list naming an exception type
RetryFor ==
    {{"network", "rate_limit", "server"}, {"network", "server"},
     {"ValueError"}}

NoAttempts == [c \in Categories |-> 0]

RetryInit ==
    /\ OtherSpecsIdle
    /\ StoreIdle
    /\ ExtIdleExcept("retry")
    /\ retryCfg \in [retry_for : RetryFor, exclude : {{}, {"rate_limit"}}]
    /\ retryPc = "call"
    /\ retryCount = 0
    /\ retryAttempts = NoAttempts
    /\ retryErr = [type |-> "none", code |-> 0]

notRetryVars == <<posVars, svcVars, storeVars, assetVars, amountVars, taskVars, loadVars, raceVars, conVars>>

\* return await func(*args, **kwargs): the attempt returns
FuncReturns ==
    /\ retryPc = "call"
    /\ retryPc' = "returned"
    /\ UNCHANGED <<retryCfg, retryCount, retryAttempts, retryErr,
                   notRetryVars>>

\* The attempt raises error: the except branch decides between the sleep
\* before a retry and re-raising
FuncRaises ==
    /\ retryPc = "call"
    /\ \E error \in Errors :
          /\ retryErr' = error
          /\ retryAttempts' =
                [retryAttempts EXCEPT ![categorize_error(error)] = @ + 1]
          /\ retryPc' = IF should_retry(error, retryCount,
                                        retryCfg.retry_for, retryCfg.exclude)
                        THEN "sleep" ELSE "raised"
    /\ UNCHANGED <<retryCfg, retryCount, notRetryVars>>

\* await asyncio.sleep(delay) returns; retry_count += 1
SleepReturns ==
    /\ retryPc = "sleep"
    /\ retryCount < MaxRetryCount
    /\ retryCount' = retryCount + 1
    /\ retryPc' = "call"
    /\ UNCHANGED <<retryCfg, retryAttempts, retryErr, notRetryVars>>

RetryNext == FuncReturns \/ FuncRaises \/ SleepReturns

SpecRetry == RetryInit /\ [][RetryNext]_vars

\* The event loop resumes the wrapper whenever the call or the sleep it
\* awaits has completed, and the wrapped call itself returns or raises.
SpecRetryFair == SpecRetry /\ WF_vars(RetryNext)

RetryDone == retryPc \in {"returned", "raised"}

\* No category has failed more often than its max_retries + 1
AttemptsBounded ==
    \A c \in Categories : retryAttempts[c] <= max_retries(c) + 1

MaxCoroutines == 2
MaxStarted == 3

Coroutines == 1..MaxCoroutines

NoWork == [op |-> "none", level |-> 0, pos |-> NoPos, quantity |-> 0]

ConInit ==
    /\ OtherSpecsIdle
    /\ StoreIdle
    /\ ExtIdleExcept("concurrent")
    /\ \E tpmax \in 1..MaxTp :
          LET c == [i \in Ids |->
                       IF i = 1 THEN Position(Lot, tpmax, "LONG", 1, "None")
                       ELSE NoPos]
          IN  conStore = Store(c, c, [i \in Ids |-> 0], [i \in Ids |-> 0])
    /\ conPc = [c \in Coroutines |-> "idle"]
    /\ conLoc = [c \in Coroutines |-> NoWork]
    /\ conSold = 0
    /\ conStarted = 0

notConVars == <<posVars, svcVars, storeVars, assetVars, amountVars, taskVars, loadVars, raceVars, retryVars>>

\* The quantity a call settles on once it has loaded the position
\* (position_service.py:226-268 and 402-420); ok is FALSE when the call ends
\* there.
loaded_quantity(position, op, level) ==
    IF position = NoPos THEN [ok |-> FALSE, quantity |-> 0]
    ELSE IF op = "take_profit"
    THEN take_profit_quantity(
             position, level,
             get_take_profit_config(<<>>, position.take_profit_max),
             NoServiceCall.info)
    ELSE [ok |-> ~is_closed(position) /\ position.remaining_quantity > 0,
          quantity |-> position.remaining_quantity]

\* A call starts: reload_positions, get_by_id and the checks, up to the
\* await of get_asset_info
ConBegin(c) ==
    /\ conPc[c] = "idle"
    /\ conStarted < MaxStarted
    /\ \E op \in {"take_profit", "close"}, level \in 0..MaxTp :
          /\ op = "close" <=> level = 0
          /\ LET l == Reloaded(conStore)
                 q == loaded_quantity(l.cache[1], op, level)
             IN  /\ conStore' = l
                 /\ conPc' = [conPc EXCEPT ![c] = IF q.ok THEN "order"
                                                 ELSE "idle"]
                 /\ conLoc' = [conLoc EXCEPT ![c] =
                                  IF q.ok
                                  THEN [op |-> op, level |-> level,
                                        pos |-> l.cache[1],
                                        quantity |-> q.quantity]
                                  ELSE NoWork]
    /\ conStarted' = conStarted + 1
    /\ UNCHANGED <<conSold, notConVars>>

\* place_market_order is answered: a filled order has sold its quantity; a
\* rejected one makes the call raise with the store untouched
ConOrder(c) ==
    /\ conPc[c] = "order"
    /\ \E ord \in {"failed", "filled"} :
          IF ord = "filled"
          THEN /\ conSold' = conSold + conLoc[c].quantity
               /\ conPc' = [conPc EXCEPT ![c] = "update"]
               /\ UNCHANGED conLoc
          ELSE /\ conPc' = [conPc EXCEPT ![c] = "idle"]
               /\ conLoc' = [conLoc EXCEPT ![c] = NoWork]
               /\ UNCHANGED conSold
    /\ UNCHANGED <<conStore, conStarted, notConVars>>

\* The call records the fill on the Position object it loaded and persists
\* it (position_service.py:338-353 and 494-498)
ConUpdate(c) ==
    /\ conPc[c] = "update"
    /\ conStore' =
          IF conLoc[c].op = "take_profit"
          THEN take_profit_fill(
                   conStore, <<>>, 1, conLoc[c].pos, conLoc[c].level,
                   conLoc[c].quantity, "filled",
                   add_take_profit(conLoc[c].pos, conLoc[c].quantity,
                                   conLoc[c].level)).st
          ELSE repository_update(
                   conStore, 1,
                   close_call(conLoc[c].pos,
                              conLoc[c].pos.remaining_quantity, "requested",
                              {"reason", "external_id"}).pos)
    /\ conPc' = [conPc EXCEPT ![c] = "idle"]
    /\ conLoc' = [conLoc EXCEPT ![c] = NoWork]
    /\ UNCHANGED <<conSold, conStarted, notConVars>>

ConNext == \E c \in Coroutines : ConBegin(c) \/ ConOrder(c) \/ ConUpdate(c)

SpecConcurrent == ConInit /\ [][ConNext]_vars

\* C35 (as claimed): whatever the interleaving of the calls that act on a
\* position, the quantities of the take-profit and closing orders the
\* exchange executed for it add up to at most its initial_quantity.
C35_NeverOversold == conSold <= Lot

=============================================================================
